---- MODULE Spec2Model ----
(***************************************************************************)
(* A model of the bbx BBCode pull parser (src/src/parser/mod.rs,           *)
(* src/src/parser/rules.rs).                                               *)
(*                                                                         *)
(* A character is a one-character string and a str is a sequence of        *)
(* characters.  Offsets (loc, start, the results of find) count from 0 as  *)
(* in the source; every character of the modelled inputs is ASCII, so a    *)
(* byte offset is a character offset.  Option<usize>::None is NoneIdx and   *)
(* an Option<Token> is a sequence of length at most one.                   *)
(***************************************************************************)
EXTENDS Integers, Sequences, FiniteSets, TLC

VARIABLES
    input,          \* BBParser::input
    feature_flags,  \* BBParser::config.feature_flags
    loc,            \* BBParser::loc, the cursor
    open_tags,      \* BBParser::open_tags
    closed_tags,    \* BBParser::closed_tags
    rule_stack,     \* BBParser::rule_stack, top last
    ret,            \* what the last next() returned: <<>> is None, <<t>> is Some(t)
    tokens,         \* history: every token next() has returned, in order
    classified,     \* history: the same tokens as the scanner classified them
    ended,          \* history: next() has returned None
    panic,          \* the panic site reached, "none" when there was none
    custom_input,   \* the str the last next() call handed to parse_custom, if any
    uncovered,      \* history: the top rule got on top by the release of the one above
    tag_impls,      \* HtmlSerializer::tag_impls, the registry of tag writers
    tag_cache,      \* HtmlSerializer::tag_cache, from tag names to registry places
    phase,          \* where serialize() stands; "idle" when it is not running
    out,            \* the String serialize() builds
    calls,          \* history: the writer calls serialize() has made, in order
    visit           \* how many of the tags left open serialize() has visited

vars ==
    <<input, feature_flags, loc, open_tags, closed_tags, rule_stack, ret,
      tokens, classified, ended, panic, custom_input, uncovered, tag_impls,
      tag_cache, phase, out, calls, visit>>

\* the variables of the serializer
html_vars == <<tag_impls, tag_cache, phase, out, calls, visit>>

----------------------------------------------------------------------------
(* Bounds of the model *)

\* free inputs: every string over Alphabet of at most MaxLen characters
MaxLen == 4

\* composed inputs: every concatenation of at most MaxPieces of Pieces
MaxPieces == 3

\* push_rule is taken while the rule stack holds fewer than MaxRules rules
MaxRules == 1

\* in the runs with stacked rules push_rule is taken while the rule stack
\* holds fewer than MaxStacked rules
MaxStacked == 2

\* the runs that are followed to their end have inputs of at most
\* MaxPlainPieces pieces
MaxPlainPieces == 2

\* a custom parser returns a token of at most MaxCustomSpan characters
MaxCustomSpan == 2

\* the inputs of the runs with a custom parser are made of at most
\* MaxCustomPieces of Pieces
MaxCustomPieces == 1

\* the inputs of the runs of the serializer are made of at most
\* MaxHtmlPieces of HtmlPieces
MaxHtmlPieces == 3

----------------------------------------------------------------------------
(* str helpers *)

NoneIdx == -1

\* &s[a..b]
Slice(s, a, b) == SubSeq(s, a + 1, b)

UpperCase ==
    <<"A", "B", "C", "D", "E", "F", "G", "H", "I", "J", "K", "L", "M",
      "N", "O", "P", "Q", "R", "S", "T", "U", "V", "W", "X", "Y", "Z">>

LowerCase ==
    <<"a", "b", "c", "d", "e", "f", "g", "h", "i", "j", "k", "l", "m",
      "n", "o", "p", "q", "r", "s", "t", "u", "v", "w", "x", "y", "z">>

to_ascii_lowercase(c) ==
    IF \E i \in 1..Len(UpperCase) : UpperCase[i] = c
    THEN LowerCase[CHOOSE i \in 1..Len(UpperCase) : UpperCase[i] = c]
    ELSE c

\* a faulty variant: the comparison is exact
eq_exact(a, b) == a = b

\* str::eq_ignore_ascii_case
eq_ignore_ascii_case(a, b) ==
    /\ Len(a) = Len(b)
    /\ \A i \in 1..Len(a) : to_ascii_lowercase(a[i]) = to_ascii_lowercase(b[i])

\* the White_Space characters that str::trim removes, of those modelled
WhiteSpace == {" ", "\t", "\n"}

RECURSIVE trim_start(_)
trim_start(s) ==
    IF s # <<>> /\ Head(s) \in WhiteSpace THEN trim_start(Tail(s)) ELSE s

RECURSIVE trim_end(_)
trim_end(s) ==
    IF s # <<>> /\ s[Len(s)] \in WhiteSpace
    THEN trim_end(SubSeq(s, 1, Len(s) - 1))
    ELSE s

\* str::trim
trim(s) == trim_end(trim_start(s))

\* str::find with a set of characters as the pattern: the offset of the
\* first character of s that is in cs, NoneIdx when there is none
find(s, cs) ==
    IF \E i \in 1..Len(s) : s[i] \in cs
    THEN (CHOOSE i \in 1..Len(s) :
              s[i] \in cs /\ \A j \in 1..(i - 1) : s[j] \notin cs) - 1
    ELSE NoneIdx

starts_with(s, c) == s # <<>> /\ Head(s) = c

ends_with(s, c) == s # <<>> /\ s[Len(s)] = c

----------------------------------------------------------------------------
(* Tokens *)

\* struct Token { span, start, kind }: kind is flattened into the variant
\* name, the BBTag's tag and args, and the back reference of a CloseBBTag
Token(span, start, k) ==
    [span |-> span, start |-> start, kind |-> k.kind, tag |-> k.tag,
     args |-> k.args, idx |-> k.idx]

\* TokenKind::Text
TextKind == [kind |-> "Text", tag |-> <<>>, args |-> <<>>, idx |-> NoneIdx]

\* TokenKind::Custom
CustomKind == [kind |-> "Custom", tag |-> <<>>, args |-> <<>>, idx |-> NoneIdx]

\* a faulty variant: the text keeps the tag's contents without its brackets
rewrite_as_text_unbracketed(t) ==
    Token(SubSeq(t.span, 2, Len(t.span) - 1), t.start + 1, TextKind)

\* Token::rewrite_as_text
rewrite_as_text(t) == Token(t.span, t.start, TextKind)

\* a faulty variant: the close tag is given the length of the closed list
rewrite_with_opening_tag_len(t, i) == [t EXCEPT !.idx = i + 1]

\* Token::rewrite_with_opening_tag, on a Close token
rewrite_with_opening_tag(t, i) == [t EXCEPT !.idx = i]

\* Token::rewrite_with_opening_tag panics on a token that is no Close tag
rewrite_with_opening_tag_panics(t) == t.kind # "Close"

IsTag(t) == t.kind \in {"Open", "Close", "Standalone"}

\* a faulty variant: the raw arguments are returned as they are
token_args_raw(t) == IF IsTag(t) /\ t.args # <<>> THEN <<t.args>> ELSE <<>>

\* Token::args
token_args(t) ==
    IF IsTag(t) /\ trim(t.args) # <<>> THEN <<trim(t.args)>> ELSE <<>>

\* Token::is_open
is_open(t, tag_name) == t.kind = "Open" /\ eq_ignore_ascii_case(t.tag, tag_name)

\* Token::is_open_argless
is_open_argless(t, tag_name) == is_open(t, tag_name) /\ token_args(t) = <<>>

\* Token::is_close
is_close(t, tag_name) == t.kind = "Close" /\ eq_ignore_ascii_case(t.tag, tag_name)

\* Token::is_close_argless
is_close_argless(t, tag_name) == is_close(t, tag_name) /\ token_args(t) = <<>>

\* Token::is_standalone
is_standalone(t, tag_name) ==
    t.kind = "Standalone" /\ eq_ignore_ascii_case(t.tag, tag_name)

\* Token::is_standalone_argless
is_standalone_argless(t, tag_name) ==
    is_standalone(t, tag_name) /\ token_args(t) = <<>>

\* Token::is_text
is_text(t) == t.kind = "Text"

----------------------------------------------------------------------------
(* The scanner of BBParser::next *)

TAG_OPENERS == {"["}

\* a faulty variant: a trailing '/' wins over a leading '/'
to_token_kind_standalone_first(tag, args) ==
    IF ends_with(args, "/")
    THEN [kind |-> "Standalone", tag |-> tag,
          args |-> Slice(args, 0, Len(args) - 1), idx |-> NoneIdx]
    ELSE IF starts_with(tag, "/")
    THEN [kind |-> "Close", tag |-> Slice(tag, 1, Len(tag)), args |-> args,
          idx |-> NoneIdx]
    ELSE [kind |-> "Open", tag |-> tag, args |-> args, idx |-> NoneIdx]

\* fn to_token_kind, for tag contents with a separator
to_token_kind(tag, args) ==
    IF starts_with(tag, "/")
    THEN [kind |-> "Close", tag |-> Slice(tag, 1, Len(tag)), args |-> args,
          idx |-> NoneIdx]
    ELSE IF ends_with(args, "/")
    THEN [kind |-> "Standalone", tag |-> tag,
          args |-> Slice(args, 0, Len(args) - 1), idx |-> NoneIdx]
    ELSE [kind |-> "Open", tag |-> tag, args |-> args, idx |-> NoneIdx]

\* fn to_token_kind_single, for tag contents without a separator
to_token_kind_single(tag) ==
    IF starts_with(tag, "/")
    THEN [kind |-> "Close", tag |-> Slice(tag, 1, Len(tag)), args |-> <<>>,
          idx |-> NoneIdx]
    ELSE IF ends_with(tag, "/")
    THEN [kind |-> "Standalone", tag |-> Slice(tag, 0, Len(tag) - 1),
          args |-> <<>>, idx |-> NoneIdx]
    ELSE [kind |-> "Open", tag |-> tag, args |-> <<>>, idx |-> NoneIdx]

\* a faulty variant: the cursor is left on the ']' of the tag
tag_token_short_advance(inp, l, tag_end, tag_contents) ==
    LET span == Slice(inp, l, l + tag_end + 2)
        arg_idx == find(tag_contents, {"=", " "})
        kind ==
            IF arg_idx # NoneIdx
            THEN to_token_kind(Slice(tag_contents, 0, arg_idx),
                               Slice(tag_contents, arg_idx, Len(tag_contents)))
            ELSE to_token_kind_single(tag_contents)
    IN  [token |-> Token(span, l, kind), loc |-> l + Len(span) - 1]

\* the tag branch: the token for the tag whose ']' is tag_end characters
\* after the '[' at l, and the cursor after it
tag_token(inp, l, tag_end, tag_contents) ==
    LET span == Slice(inp, l, l + tag_end + 2)
        arg_idx == find(tag_contents, {"=", " "})
        kind ==
            IF arg_idx # NoneIdx
            THEN to_token_kind(Slice(tag_contents, 0, arg_idx),
                               Slice(tag_contents, arg_idx, Len(tag_contents)))
            ELSE to_token_kind_single(tag_contents)
    IN  [token |-> Token(span, l, kind), loc |-> l + Len(span)]

\* a faulty variant: a '[' with no tag after it swallows the rest of the input
segment_end_rest(inp, l) == Len(inp) - l

\* a faulty variant: a text segment also ends before a ']'
segment_end_at_bracket(inp, l) ==
    LET at == find(Slice(inp, l + 1, Len(inp)), {"[", "]"})
    IN  IF at = NoneIdx THEN Len(inp) - l ELSE at + 1

\* a faulty variant: the '[' a text segment starts with is not counted
segment_end_without_opener(inp, l) ==
    LET remaining == Slice(inp, l, Len(inp))
        at == IF inp[l + 1] \notin TAG_OPENERS
              THEN find(remaining, TAG_OPENERS)
              ELSE find(Slice(inp, l + 1, Len(inp)), TAG_OPENERS)
    IN  IF at = NoneIdx THEN Len(remaining) ELSE at

\* the length of the text segment that starts at l
segment_end(inp, l) ==
    LET remaining == Slice(inp, l, Len(inp))
        at == IF inp[l + 1] \notin TAG_OPENERS
              THEN find(remaining, TAG_OPENERS)
              ELSE find(Slice(inp, l + 1, Len(inp)), TAG_OPENERS)
    IN  IF at = NoneIdx THEN Len(remaining)
        ELSE IF inp[l + 1] \notin TAG_OPENERS THEN at
        ELSE at + 1

\* the text branch
text_token(inp, l) ==
    LET range_len == segment_end(inp, l)
    IN  [token |-> Token(Slice(inp, l, l + range_len), l, TextKind),
         loc |-> l + range_len]

\* a faulty variant: the contents of a tag are not searched for another '['
accepts_tag_nested(inp, l) ==
    /\ inp[l + 1] \in TAG_OPENERS
    /\ find(Slice(inp, l + 1, Len(inp)), {"]"}) # NoneIdx

\* whether the scanner takes the tag branch at l
accepts_tag(inp, l) ==
    LET rem_after == Slice(inp, l + 1, Len(inp))
        tag_end == find(rem_after, {"]"})
    IN  /\ inp[l + 1] \in TAG_OPENERS
        /\ tag_end # NoneIdx
        /\ find(trim(Slice(rem_after, 0, tag_end)), TAG_OPENERS) = NoneIdx

\* a faulty variant: the span of a tag ends where its trimmed contents end
scan_span_of_contents(inp, l) ==
    LET rem_after == Slice(inp, l + 1, Len(inp))
        tag_end == find(rem_after, {"]"})
        tag_contents == trim(Slice(rem_after, 0, tag_end))
    IN  IF accepts_tag(inp, l)
        THEN tag_token(inp, l, Len(tag_contents), tag_contents)
        ELSE text_token(inp, l)

\* the scanner: the token at the cursor l < Len(inp), as classified, and the
\* cursor after it
scan(inp, l) ==
    LET rem_after == Slice(inp, l + 1, Len(inp))
        tag_end == find(rem_after, {"]"})
    IN  IF accepts_tag(inp, l)
        THEN tag_token(inp, l, tag_end, trim(Slice(rem_after, 0, tag_end)))
        ELSE text_token(inp, l)

----------------------------------------------------------------------------
(* Parser rules *)

\* rules::builtin::NoParseRule::new, with ACTION = ParserRuleAction::NoParse
NoParseRule(tag_name) == [action |-> "NoParse", tag_name |-> tag_name]

\* a rule of the caller with ACTION = ParserRuleAction::CustomParser; what
\* its transform_token answers is the caller's choice
CustomParserRule(releases) ==
    [action |-> "CustomParser", tag_name |-> <<>>, releases |-> releases]

\* ParserRule::parse_custom of a rule of the caller: the tokens it may
\* return for the str it is given, a Custom token over the first characters
parse_custom(given) ==
    {Token(Slice(given, 0, k), 0, CustomKind) :
        k \in 1..(IF Len(given) < MaxCustomSpan THEN Len(given)
                  ELSE MaxCustomSpan)}

\* ParserRule::transform_token: whether the rule releases on this token;
\* NoParseRule releases on the close tag of its name
transform_token(rule, token) ==
    IF rule.action = "NoParse"
    THEN token.kind = "Close" /\ eq_ignore_ascii_case(token.tag, rule.tag_name)
    ELSE rule.releases

\* a faulty variant: a NoParse rule on top leaves the token as it is
apply_rules_no_rewrite(token, rules) ==
    LET do_pop ==
            IF rules # <<>> THEN transform_token(rules[Len(rules)], token)
            ELSE FALSE
        left == IF do_pop THEN SubSeq(rules, 1, Len(rules) - 1) ELSE rules
    IN  [token |-> token, rule_stack |-> left]

\* a faulty variant: the rewriting is decided on the rule stack as it was
\* before the top rule was popped
apply_rules_rewrite_first(token, rules) ==
    LET do_pop ==
            IF rules # <<>> THEN transform_token(rules[Len(rules)], token)
            ELSE FALSE
        left == IF do_pop THEN SubSeq(rules, 1, Len(rules) - 1) ELSE rules
        suppress == rules # <<>> /\ rules[Len(rules)].action = "NoParse"
    IN  [token |-> IF suppress THEN rewrite_as_text(token) ELSE token,
         rule_stack |-> left]

\* a faulty variant: a CustomParser rule is not asked and stays
apply_rules_keep_custom(token, rules) ==
    LET do_pop ==
            IF rules # <<>> /\ rules[Len(rules)].action = "NoParse"
            THEN transform_token(rules[Len(rules)], token)
            ELSE FALSE
        left == IF do_pop THEN SubSeq(rules, 1, Len(rules) - 1) ELSE rules
        suppress == left # <<>> /\ left[Len(left)].action = "NoParse"
    IN  [token |-> IF suppress THEN rewrite_as_text(token) ELSE token,
         rule_stack |-> left]

\* a faulty variant: when the top rule releases, the oldest rule is removed
apply_rules_pop_oldest(token, rules) ==
    LET do_pop ==
            IF rules # <<>> THEN transform_token(rules[Len(rules)], token)
            ELSE FALSE
        left == IF do_pop THEN Tail(rules) ELSE rules
        suppress == left # <<>> /\ left[Len(left)].action = "NoParse"
    IN  [token |-> IF suppress THEN rewrite_as_text(token) ELSE token,
         rule_stack |-> left]

\* a faulty variant: a rule that releases takes the rules below it with it
apply_rules_pop_all(token, rules) ==
    LET do_pop ==
            IF rules # <<>> THEN transform_token(rules[Len(rules)], token)
            ELSE FALSE
        left == IF do_pop THEN <<>> ELSE rules
        suppress == left # <<>> /\ left[Len(left)].action = "NoParse"
    IN  [token |-> IF suppress THEN rewrite_as_text(token) ELSE token,
         rule_stack |-> left]

\* the rule step of BBParser::next: the top rule decides on releasing, is
\* popped when it does, and a NoParse rule left on top rewrites the token
apply_rules(token, rules) ==
    LET do_pop ==
            IF rules # <<>> THEN transform_token(rules[Len(rules)], token)
            ELSE FALSE
        left == IF do_pop THEN SubSeq(rules, 1, Len(rules) - 1) ELSE rules
        suppress == left # <<>> /\ left[Len(left)].action = "NoParse"
    IN  [token |-> IF suppress THEN rewrite_as_text(token) ELSE token,
         rule_stack |-> left]

----------------------------------------------------------------------------
(* Open/close tag tracking *)

POP_UNORDERED == "POP_UNORDERED"

UNMATCHED_CLOSE_AS_TEXT == "UNMATCHED_CLOSE_AS_TEXT"

ParserFeature == {POP_UNORDERED, UNMATCHED_CLOSE_AS_TEXT}

\* the answer of the search when it meets a non-open token on the stack
Unreachable == -2

\* a faulty variant: the search goes on below a top element of another name
RECURSIVE to_remove_any_depth(_, _, _, _)
to_remove_any_depth(open, i, removee, flags) ==
    IF i = 0 THEN NoneIdx
    ELSE IF open[i].kind # "Open" THEN Unreachable
    ELSE IF eq_ignore_ascii_case(open[i].tag, removee) THEN i - 1
    ELSE to_remove_any_depth(open, i - 1, removee, flags)

\* a faulty variant: the search takes the oldest element of the name
RECURSIVE to_remove_oldest(_, _, _, _)
to_remove_oldest(open, i, removee, flags) ==
    IF i = 0 THEN NoneIdx
    ELSE IF open[i].kind # "Open" THEN Unreachable
    ELSE IF POP_UNORDERED \notin flags
    THEN IF eq_ignore_ascii_case(open[i].tag, removee) THEN i - 1 ELSE NoneIdx
    ELSE IF to_remove_oldest(open, i - 1, removee, flags) # NoneIdx
    THEN to_remove_oldest(open, i - 1, removee, flags)
    ELSE IF eq_ignore_ascii_case(open[i].tag, removee) THEN i - 1
    ELSE NoneIdx

\* the search of the open stack for the tag a close tag removes, from the
\* element at offset i - 1 downwards
RECURSIVE to_remove(_, _, _, _)
to_remove(open, i, removee, flags) ==
    IF i = 0 THEN NoneIdx
    ELSE IF open[i].kind # "Open" THEN Unreachable
    ELSE IF eq_ignore_ascii_case(open[i].tag, removee) THEN i - 1
    ELSE IF POP_UNORDERED \notin flags THEN NoneIdx
    ELSE to_remove(open, i - 1, removee, flags)

\* a faulty variant: the elements above the one removed go with it
remove_and_above(v, i) == SubSeq(v, 1, i)

\* Vec::remove
remove(v, i) == SubSeq(v, 1, i) \o SubSeq(v, i + 2, Len(v))

\* a faulty variant: a close tag that does not resolve is rewritten as text
\* whatever the feature flags
track_unmatched_as_text(token, open, closed, flags) ==
    LET pushed == IF token.kind = "Open" THEN Append(open, token) ELSE open
        at == to_remove(pushed, Len(pushed), token.tag, flags)
    IN  IF token.kind # "Close"
        THEN [token |-> token, open_tags |-> pushed, closed_tags |-> closed,
              panic |-> "none"]
        ELSE IF at = Unreachable
        THEN [token |-> token, open_tags |-> pushed, closed_tags |-> closed,
              panic |-> "unreachable"]
        ELSE IF at # NoneIdx
        THEN [token |-> rewrite_with_opening_tag(token, Len(closed)),
              open_tags |-> remove(pushed, at),
              closed_tags |-> Append(closed, pushed[at + 1]),
              panic |-> IF rewrite_with_opening_tag_panics(token)
                        THEN "unimplemented" ELSE "none"]
        ELSE [token |-> rewrite_as_text(token), open_tags |-> pushed,
              closed_tags |-> closed, panic |-> "none"]

\* a faulty variant: every token is pushed onto the open stack
track_push_all(token, open, closed, flags) ==
    LET pushed == Append(open, token)
        at == to_remove(pushed, Len(pushed), token.tag, flags)
    IN  IF token.kind # "Close"
        THEN [token |-> token, open_tags |-> pushed, closed_tags |-> closed,
              panic |-> "none"]
        ELSE IF at = Unreachable
        THEN [token |-> token, open_tags |-> pushed, closed_tags |-> closed,
              panic |-> "unreachable"]
        ELSE IF at # NoneIdx
        THEN [token |-> rewrite_with_opening_tag(token, Len(closed)),
              open_tags |-> remove(pushed, at),
              closed_tags |-> Append(closed, pushed[at + 1]),
              panic |-> IF rewrite_with_opening_tag_panics(token)
                        THEN "unimplemented" ELSE "none"]
        ELSE IF UNMATCHED_CLOSE_AS_TEXT \in flags
        THEN [token |-> rewrite_as_text(token), open_tags |-> pushed,
              closed_tags |-> closed, panic |-> "none"]
        ELSE [token |-> token, open_tags |-> pushed, closed_tags |-> closed,
              panic |-> "none"]

\* a faulty variant: the tag a close tag resolves is put at the front of the
\* closed tags
track_closed_first(token, open, closed, flags) ==
    LET pushed == IF token.kind = "Open" THEN Append(open, token) ELSE open
        at == to_remove(pushed, Len(pushed), token.tag, flags)
    IN  IF token.kind # "Close"
        THEN [token |-> token, open_tags |-> pushed, closed_tags |-> closed,
              panic |-> "none"]
        ELSE IF at = Unreachable
        THEN [token |-> token, open_tags |-> pushed, closed_tags |-> closed,
              panic |-> "unreachable"]
        ELSE IF at # NoneIdx
        THEN [token |-> rewrite_with_opening_tag(token, Len(closed)),
              open_tags |-> remove(pushed, at),
              closed_tags |-> <<pushed[at + 1]>> \o closed,
              panic |-> IF rewrite_with_opening_tag_panics(token)
                        THEN "unimplemented" ELSE "none"]
        ELSE IF UNMATCHED_CLOSE_AS_TEXT \in flags
        THEN [token |-> rewrite_as_text(token), open_tags |-> pushed,
              closed_tags |-> closed, panic |-> "none"]
        ELSE [token |-> token, open_tags |-> pushed, closed_tags |-> closed,
              panic |-> "none"]

\* the tracking step of BBParser::next
track(token, open, closed, flags) ==
    LET pushed == IF token.kind = "Open" THEN Append(open, token) ELSE open
        at == to_remove(pushed, Len(pushed), token.tag, flags)
    IN  IF token.kind # "Close"
        THEN [token |-> token, open_tags |-> pushed, closed_tags |-> closed,
              panic |-> "none"]
        ELSE IF at = Unreachable
        THEN [token |-> token, open_tags |-> pushed, closed_tags |-> closed,
              panic |-> "unreachable"]
        ELSE IF at # NoneIdx
        THEN [token |-> rewrite_with_opening_tag(token, Len(closed)),
              open_tags |-> remove(pushed, at),
              closed_tags |-> Append(closed, pushed[at + 1]),
              panic |-> IF rewrite_with_opening_tag_panics(token)
                        THEN "unimplemented" ELSE "none"]
        ELSE IF UNMATCHED_CLOSE_AS_TEXT \in flags
        THEN [token |-> rewrite_as_text(token), open_tags |-> pushed,
              closed_tags |-> closed, panic |-> "none"]
        ELSE [token |-> token, open_tags |-> pushed, closed_tags |-> closed,
              panic |-> "none"]

----------------------------------------------------------------------------
(* The inputs *)

Alphabet == {"[", "]", "/", " ", "=", "a"}

FreeInputs == UNION {[1..n -> Alphabet] : n \in 0..MaxLen}

Pieces ==
    {<<"[", "a", "]">>, <<"[", "b", "]">>, <<"[", "/", "a", "]">>,
     <<"[", "/", "B", "]">>, <<"x">>}

RECURSIVE Composed(_)
Composed(n) ==
    IF n = 0 THEN {<<>>}
    ELSE Composed(n - 1) \cup {s \o p : s \in Composed(n - 1), p \in Pieces}

\* parser/tests.rs
SIMPLE ==
    <<"[", "b", "o", "l", "d", "]", "T", "h", "i", "s", " ", "i", "s", " ", "a", " ", "t", "e", "s", "t", "!", "[", "/", "b", "o", "l", "d", "]", " ", "a", "n", "d", " ", "i", "t", "'", "s", " ", "v", "e", "r", "y", " ", "c", "o", "o", "l", ".">>

NO_PARSE_RULE ==
    <<"[", " ", "b", "a", "r", " ", "]", " ", "[", " ", "n", "o", "p", "a", "r", "s", "e", " ", "]", "f", "o", "o", " ", "[", "/", "b", "a", "r", "]", " ", "[", "b", "a", "z", "]", " ", "a", "s", "d", "f", "a", "s", "d", " ", "[", "/", "n", "o", "p", "a", "r", "s", "e", "]">>

NO_TAG_BLEED ==
    <<"[", "b", "a", "r", " ", "]", "f", "o", "o">>

TAG_KINDS ==
    <<"[", "o", "p", "e", "n", "_", "a", "r", "g", "l", "e", "s", "s", "]", "[", "o", "p", "e", "n", " ", "a", "r", "g", "s", "]", "[", "o", "p", "e", "n", "=", "a", "r", "g", "s", "]", "[", "/", "c", "l", "o", "s", "e", "_", "a", "r", "g", "l", "e", "s", "s", "]", "[", "/", "c", "l", "o", "s", "e", " ", "a", "r", "g", "s", "]", "[", "/", "c", "l", "o", "s", "e", "=", "a", "r", "g", "s", "]", "[", "s", "t", "a", "n", "d", "a", "l", "o", "n", "e", "_", "a", "r", "g", "l", "e", "s", "s", "/", "]", "[", "s", "t", "a", "n", "d", "a", "l", "o", "n", "e", " ", "a", "r", "g", "s", "/", "]", "[", "s", "t", "a", "n", "d", "a", "l", "o", "n", "e", "=", "a", "r", "g", "s", "/", "]">>

UNCLOSED_TAG ==
    <<"[", "n", "o", "t", "_", "a", "_", "t", "a", "g", "=", "r", "e", "a", "l", " ">>

\* the inputs the specification names
STRICT_NESTING ==
    <<"[", "a", "]", "[", "b", "]", "x", "[", "/", "a", "]", "[", "/", "b", "]">>

CASE_RESOLVE ==
    <<"[", "B", "]", "x", "[", "/", "b", "]">>

CASE_OPEN ==
    <<"[", "B", "O", "L", "D", "]">>

PADDED ==
    <<"[", " ", "b", "a", "r", " ", "]">>

\* a standalone tag whose raw arguments are one space, and a close tag
\* with a trailing '/'
BLANK_ARGS ==
    <<"[", "a", " ", "/", "]", "x">>

CLOSE_SLASHED ==
    <<"[", "/", "a", "=", "/", "]">>

Examples ==
    {SIMPLE, NO_PARSE_RULE, NO_TAG_BLEED, TAG_KINDS, UNCLOSED_TAG,
     STRICT_NESTING, CASE_RESOLVE, CASE_OPEN, PADDED, BLANK_ARGS,
     CLOSE_SLASHED}

Inputs == FreeInputs \cup Composed(MaxPieces) \cup Examples

\* the tag names NoParse rules are pushed for
RuleNames == {<<"a">>, <<"n", "o", "p", "a", "r", "s", "e">>}

----------------------------------------------------------------------------
(* The parser *)

\* BBParser::with_config (BBParser::new is the case of no feature flag)
with_config ==
    /\ feature_flags \in SUBSET ParserFeature
    /\ loc = 0
    /\ open_tags = <<>>
    /\ closed_tags = <<>>
    /\ rule_stack = <<>>
    /\ ret = <<>>
    /\ tokens = <<>>
    /\ classified = <<>>
    /\ ended = FALSE
    /\ panic = "none"
    /\ custom_input = <<>>
    /\ uncovered = FALSE

\* no serializer is at work
no_serializer ==
    /\ tag_impls = <<>>
    /\ tag_cache = <<>>
    /\ phase = "idle"
    /\ out = <<>>
    /\ calls = <<>>
    /\ visit = 0

\* a parser over one of the inputs
Init == input \in Inputs /\ with_config /\ no_serializer

\* a faulty variant: the end of the input is reported one character early
at_end_early(inp, l) == l + 1 >= Len(inp)

\* the end test of BBParser::next
at_end(inp, l) == l >= Len(inp)

\* the token of this call before the rule step, the cursor after it and
\* the str handed to a rule: what the top rule's parse_custom returns when
\* its action is CustomParser (it is handed the input), and what the
\* scanner finds otherwise
produced(inp, l, rules) ==
    IF rules # <<>> /\ rules[Len(rules)].action = "CustomParser"
    THEN {[token |-> t, loc |-> l + Len(t.span), given |-> <<inp>>] :
              t \in parse_custom(inp)}
    ELSE {[token |-> scan(inp, l).token, loc |-> scan(inp, l).loc,
           given |-> <<>>]}

\* a faulty variant: tag tracking comes before the rule step
next_track_first ==
    /\ panic = "none"
    /\ UNCHANGED <<input, feature_flags>>
    /\ IF at_end(input, loc)
       THEN /\ ret' = <<>>
            /\ ended' = TRUE
            /\ UNCHANGED <<loc, open_tags, closed_tags, rule_stack, tokens,
                           classified, panic, custom_input, uncovered>>
       ELSE \E scanned \in produced(input, loc, rule_stack) :
            LET tracked == track(scanned.token, open_tags, closed_tags,
                                 feature_flags)
                ruled == apply_rules(tracked.token, rule_stack)
            IN  /\ loc' = scanned.loc
                /\ rule_stack' = ruled.rule_stack
                /\ open_tags' = tracked.open_tags
                /\ closed_tags' = tracked.closed_tags
                /\ panic' = tracked.panic
                /\ ret' = IF tracked.panic = "none" THEN <<ruled.token>>
                          ELSE <<>>
                /\ tokens' = IF tracked.panic = "none"
                             THEN Append(tokens, ruled.token) ELSE tokens
                /\ classified' = IF tracked.panic = "none"
                                 THEN Append(classified, scanned.token)
                                 ELSE classified
                /\ custom_input' = scanned.given
                /\ uncovered' = IF ruled.rule_stack = rule_stack THEN uncovered
                                ELSE ruled.rule_stack # <<>>
                /\ UNCHANGED ended

\* BBParser::next
next ==
    /\ panic = "none"
    /\ UNCHANGED <<input, feature_flags>>
    /\ IF at_end(input, loc)
       THEN /\ ret' = <<>>
            /\ ended' = TRUE
            /\ UNCHANGED <<loc, open_tags, closed_tags, rule_stack, tokens,
                           classified, panic, custom_input, uncovered>>
       ELSE \E scanned \in produced(input, loc, rule_stack) :
            LET ruled == apply_rules(scanned.token, rule_stack)
                tracked == track(ruled.token, open_tags, closed_tags,
                                 feature_flags)
            IN  /\ loc' = scanned.loc
                /\ rule_stack' = ruled.rule_stack
                /\ open_tags' = tracked.open_tags
                /\ closed_tags' = tracked.closed_tags
                /\ panic' = tracked.panic
                /\ ret' = IF tracked.panic = "none" THEN <<tracked.token>>
                          ELSE <<>>
                /\ tokens' = IF tracked.panic = "none"
                             THEN Append(tokens, tracked.token) ELSE tokens
                /\ classified' = IF tracked.panic = "none"
                                 THEN Append(classified, scanned.token)
                                 ELSE classified
                /\ custom_input' = scanned.given
                /\ uncovered' = IF ruled.rule_stack = rule_stack THEN uncovered
                                ELSE ruled.rule_stack # <<>>
                /\ UNCHANGED ended

\* BBParser::push_rule, with a NoParseRule
push_rule ==
    /\ panic = "none"
    /\ Len(rule_stack) < MaxRules
    /\ \E n \in RuleNames : rule_stack' = Append(rule_stack, NoParseRule(n))
    /\ UNCHANGED <<input, feature_flags, loc, open_tags, closed_tags, ret,
                   tokens, classified, ended, panic, custom_input>>
    /\ uncovered' = FALSE

Next ==
    \/ next /\ UNCHANGED html_vars
    \/ push_rule /\ UNCHANGED html_vars

\* the parser driven with NoParse rules only
Spec == Init /\ [][Next]_vars

\* BBParser::push_rule, with a NoParseRule, over the rules already pushed
push_rule_stacked ==
    /\ panic = "none"
    /\ Len(rule_stack) < MaxStacked
    /\ \E n \in RuleNames : rule_stack' = Append(rule_stack, NoParseRule(n))
    /\ UNCHANGED <<input, feature_flags, loc, open_tags, closed_tags, ret,
                   tokens, classified, ended, panic, custom_input>>
    /\ uncovered' = FALSE

\* the inputs are the concatenations of at most MaxPieces of Pieces and the
\* input of the test no_parse_rule
InitStacked == Init /\ input \in Composed(MaxPieces) \cup {NO_PARSE_RULE}

NextStacked ==
    \/ next /\ UNCHANGED html_vars
    \/ push_rule_stacked /\ UNCHANGED html_vars

\* the parser driven with NoParse rules pushed one over the other
SpecStacked == InitStacked /\ [][NextStacked]_vars

\* BBParser::push_rule, with a rule of the caller whose action is
\* CustomParser
push_custom ==
    /\ panic = "none"
    /\ Len(rule_stack) < MaxRules
    /\ \E r \in BOOLEAN : rule_stack' = Append(rule_stack, CustomParserRule(r))
    /\ UNCHANGED <<input, feature_flags, loc, open_tags, closed_tags, ret,
                   tokens, classified, ended, panic, custom_input>>
    /\ uncovered' = FALSE

\* the inputs are the concatenations of at most MaxCustomPieces of Pieces
InitCustom == Init /\ input \in Composed(MaxCustomPieces)

NextCustom ==
    \/ next /\ UNCHANGED html_vars
    \/ push_custom /\ UNCHANGED html_vars

\* the parser driven with CustomParser rules
SpecCustom == InitCustom /\ [][NextCustom]_vars

----------------------------------------------------------------------------
(* The HTML serializer *)

\* html_escape::encode_safe on one character
encode_safe_char(c) ==
    IF c = "&" THEN <<"&", "a", "m", "p", ";">>
    ELSE IF c = "<" THEN <<"&", "l", "t", ";">>
    ELSE IF c = ">" THEN <<"&", "g", "t", ";">>
    ELSE IF c = "\"" THEN <<"&", "q", "u", "o", "t", ";">>
    ELSE IF c = "'" THEN <<"&", "#", "x", "2", "7", ";">>
    ELSE IF c = "/" THEN <<"&", "#", "x", "2", "F", ";">>
    ELSE <<c>>

\* html_escape::encode_safe
RECURSIVE encode_safe(_)
encode_safe(s) ==
    IF s = <<>> THEN <<>> ELSE encode_safe_char(Head(s)) \o encode_safe(Tail(s))

\* a faulty variant: the span is pushed as it is
write_token_raw(token) == token.span

\* SimpleHtmlWriter::write_token: what it pushes to the buffer
write_token(token) == encode_safe(token.span)

\* a SimpleHtmlTagWriter: its TAGS and its markup, <<>> for None
SimpleHtmlTagWriter(tags, open, close, standalone) ==
    [TAGS |-> tags, HTML_OPEN |-> open, HTML_CLOSE |-> close,
     HTML_STANDALONE |-> standalone]

BoldTag ==
    SimpleHtmlTagWriter(
        <<<<"b">>, <<"b", "o", "l", "d">>>>,
        <<<<"<", "b", ">">>>>,
        <<<<"<", "/", "b", ">">>>>,
        <<>>)

ItalicTag ==
    SimpleHtmlTagWriter(
        <<<<"i">>, <<"i", "t", "a", "l", "i", "c">>>>,
        <<<<"<", "i", ">">>>>,
        <<<<"<", "/", "i", ">">>>>,
        <<>>)

UnderlineTag ==
    SimpleHtmlTagWriter(
        <<<<"u">>, <<"u", "n", "d", "e", "r", "l", "i", "n", "e">>, <<"u", "n",
        "d", "e", "r">>>>,
        <<<<"<", "u", ">">>>>,
        <<<<"<", "/", "u", ">">>>>,
        <<>>)

LinebreakTag ==
    SimpleHtmlTagWriter(
        <<<<"b", "r">>>>,
        <<>>,
        <<>>,
        <<<<"<", "b", "r", "/", ">">>>>)

BlockQuoteTag ==
    SimpleHtmlTagWriter(
        <<<<"q", "u", "o", "t", "e">>, <<"b", "l", "o", "c", "k", "q", "u",
        "o", "t", "e">>>>,
        <<<<"<", "b", "l", "o", "c", "k", "q", "u", "o", "t", "e", ">">>>>,
        <<<<"<", "/", "b", "l", "o", "c", "k", "q", "u", "o", "t", "e",
        ">">>>>,
        <<>>)

QuoteTag ==
    SimpleHtmlTagWriter(
        <<<<"q">>>>,
        <<<<"<", "q", ">">>>>,
        <<<<"<", "/", "q", ">">>>>,
        <<>>)

SubscriptTag ==
    SimpleHtmlTagWriter(
        <<<<"s", "u", "b">>, <<"s", "u", "b", "s", "c", "r", "i", "p", "t">>,
        <<"s", "m", "a", "l", "l">>>>,
        <<<<"<", "s", "u", "b", ">">>>>,
        <<<<"<", "/", "s", "u", "b", ">">>>>,
        <<>>)

SuperscriptTag ==
    SimpleHtmlTagWriter(
        <<<<"s", "u", "p">>, <<"s", "u", "p", "e", "r">>, <<"s", "u", "p", "e",
        "r", "s", "c", "r", "i", "p", "t">>>>,
        <<<<"<", "s", "u", "p", ">">>>>,
        <<<<"<", "/", "s", "u", "p", ">">>>>,
        <<>>)

Header1Tag ==
    SimpleHtmlTagWriter(
        <<<<"h", "1">>, <<"t", "i", "t", "l", "e">>>>,
        <<<<"<", "h", "1", ">">>>>,
        <<<<"<", "/", "h", "1", ">">>>>,
        <<>>)

Header2Tag ==
    SimpleHtmlTagWriter(
        <<<<"h", "2">>, <<"t", "o", "p", "i", "c">>>>,
        <<<<"<", "h", "2", ">">>>>,
        <<<<"<", "/", "h", "2", ">">>>>,
        <<>>)

Header3Tag ==
    SimpleHtmlTagWriter(
        <<<<"h", "3">>, <<"s", "u", "b", "t", "o", "p", "i", "c">>>>,
        <<<<"<", "h", "3", ">">>>>,
        <<<<"<", "/", "h", "3", ">">>>>,
        <<>>)

Header4Tag ==
    SimpleHtmlTagWriter(
        <<<<"h", "4">>>>,
        <<<<"<", "h", "4", ">">>>>,
        <<<<"<", "/", "h", "4", ">">>>>,
        <<>>)

Header5Tag ==
    SimpleHtmlTagWriter(
        <<<<"h", "5">>>>,
        <<<<"<", "h", "5", ">">>>>,
        <<<<"<", "/", "h", "5", ">">>>>,
        <<>>)

Header6Tag ==
    SimpleHtmlTagWriter(
        <<<<"h", "6">>>>,
        <<<<"<", "h", "6", ">">>>>,
        <<<<"<", "/", "h", "6", ">">>>>,
        <<>>)

CenterTag ==
    SimpleHtmlTagWriter(
        <<<<"c", "e", "n", "t", "e", "r">>>>,
        <<<<"<", "d", "i", "v", " ", "s", "t", "y", "l", "e", "=", "\"", "d",
        "i", "s", "p", "l", "a", "y", ":", " ", "f", "l", "e", "x", ";", " ",
        "j", "u", "s", "t", "i", "f", "y", "-", "c", "o", "n", "t", "e", "n",
        "t", ":", " ", "c", "e", "n", "t", "e", "r", ";", "\"", ">", "<", "d",
        "i", "v", ">">>>>,
        <<<<"<", "/", "d", "i", "v", ">", "<", "/", "d", "i", "v", ">">>>>,
        <<>>)

\* builtins::all_core_v1_tags
all_core_v1_tags ==
    <<BoldTag, ItalicTag, UnderlineTag, LinebreakTag, QuoteTag, BlockQuoteTag,
      SubscriptTag, SuperscriptTag, Header1Tag, Header2Tag, Header3Tag,
      Header4Tag, Header5Tag, Header6Tag, CenterTag>>

\* a writer of the caller for the name b, written as the built-in ones are
StrongTag ==
    SimpleHtmlTagWriter(
        <<<<"b">>>>,
        <<<<"<", "s", "t", "r", "o", "n", "g", ">">>>>,
        <<<<"<", "/", "s", "t", "r", "o", "n", "g", ">">>>>,
        <<>>)

\* a writer of the caller for the name v that writes its tags as the
\* built-in ones do and overrides try_special: for its Open tag it returns
\* a NoParse rule of the name of the tag
VerbatimTag ==
    [TAGS |-> <<<<"v">>>>,
     HTML_OPEN |-> <<<<"<", "p", "r", "e", ">">>>>,
     HTML_CLOSE |-> <<<<"<", "/", "p", "r", "e", ">">>>>,
     HTML_STANDALONE |-> <<>>,
     SPECIAL |-> "NoParse"]

\* HtmlTagWriter::match_tag of a SimpleHtmlTagWriter
match_tag(w, tag) ==
    \E i \in 1..Len(w.TAGS) : eq_ignore_ascii_case(w.TAGS[i], tag)

\* HtmlTagWriter::open_tag of a SimpleHtmlTagWriter: what it pushes
open_tag(w, token) ==
    IF /\ \E i \in 1..Len(w.TAGS) : is_open_argless(token, w.TAGS[i])
       /\ w.HTML_OPEN # <<>>
    THEN w.HTML_OPEN[1]
    ELSE write_token(token)

\* a faulty variant: the opening markup is pushed for a close tag
close_tag_as_open(w, open_token, close_token) ==
    IF /\ \E i \in 1..Len(w.TAGS) : is_close_argless(close_token, w.TAGS[i])
       /\ w.HTML_OPEN # <<>>
    THEN w.HTML_OPEN[1]
    ELSE write_token(close_token)

\* HtmlTagWriter::close_tag of a SimpleHtmlTagWriter: what it pushes
close_tag(w, open_token, close_token) ==
    IF /\ \E i \in 1..Len(w.TAGS) : is_close_argless(close_token, w.TAGS[i])
       /\ w.HTML_CLOSE # <<>>
    THEN w.HTML_CLOSE[1]
    ELSE write_token(close_token)

\* HtmlTagWriter::standalone_tag of a SimpleHtmlTagWriter: what it pushes
standalone_tag(w, token) ==
    IF /\ \E i \in 1..Len(w.TAGS) : is_standalone_argless(token, w.TAGS[i])
       /\ w.HTML_STANDALONE # <<>>
    THEN w.HTML_STANDALONE[1]
    ELSE write_token(token)

\* HtmlTagWriter::try_special, which no SimpleHtmlTagWriter overrides: the
\* rule to push, <<>> for None
try_special(w, token) ==
    IF "SPECIAL" \in DOMAIN w /\ token.kind = "Open"
    THEN <<NoParseRule(token.tag)>>
    ELSE <<>>

\* Token::tag_name: the name of a tag token, <<>> for None
tag_name(t) == IF IsTag(t) THEN <<t.tag>> ELSE <<>>

\* BBParser::push_rule_obj
push_rule_obj(rules, r) == Append(rules, r)

\* a faulty variant: the last writer that matches is taken
get_writer_for_tag_last(cache, impls, name) ==
    IF name \in DOMAIN cache THEN <<cache[name]>>
    ELSE IF \E i \in 1..Len(impls) : match_tag(impls[i], name)
    THEN <<CHOOSE i \in 1..Len(impls) :
               /\ match_tag(impls[i], name)
               /\ \A j \in (i + 1)..Len(impls) : ~match_tag(impls[j], name)>>
    ELSE <<>>

\* HtmlSerializer::get_writer_for_tag: the place in the registry of the
\* writer for the name, <<>> for None
get_writer_for_tag(cache, impls, name) ==
    IF name \in DOMAIN cache THEN <<cache[name]>>
    ELSE IF \E i \in 1..Len(impls) : match_tag(impls[i], name)
    THEN <<CHOOSE i \in 1..Len(impls) :
               /\ match_tag(impls[i], name)
               /\ \A j \in 1..(i - 1) : ~match_tag(impls[j], name)>>
    ELSE <<>>

\* the first match arm of serialize(): an Open tag, a Close tag with an
\* index, a Standalone tag
for_tag_writer(tk) ==
    \/ tk.kind \in {"Open", "Standalone"}
    \/ tk.kind = "Close" /\ tk.idx # NoneIdx

\* a faulty variant: the close tag made up keeps no name
fake_close_nameless(tk) ==
    Token(tk.span, tk.start,
          [kind |-> "Close", tag |-> <<>>, args |-> <<>>, idx |-> NoneIdx])

\* the close tag serialize() makes up for a tag left open
fake_close(tk) ==
    Token(tk.span, tk.start,
          [kind |-> "Close", tag |-> tk.tag, args |-> tk.args,
           idx |-> NoneIdx])

\* a writer call as the history keeps it: the hook, the place of the tag
\* writer in the registry (0 is the default text writer), the token and,
\* for close_tag, the open token
Call(hook, writer, token, open_token) ==
    [hook |-> hook, writer |-> writer, token |-> token,
     open_token |-> open_token]

\* the inputs of the runs of the serializer are made of at most
\* MaxHtmlPieces of HtmlPieces
HtmlPieces ==
    {<<"[", "b", "]">>, <<"[", "/", "b", "]">>, <<"[", "a", "]">>,
     <<"[", "/", "a", "]">>, <<"[", "b", "r", "/", "]">>, <<"<">>,
     <<"[", "b", "=", "1", "]">>}

RECURSIVE HtmlComposed(_)
HtmlComposed(n) ==
    IF n = 0 THEN {<<>>}
    ELSE HtmlComposed(n - 1)
             \cup {s \o p : s \in HtmlComposed(n - 1), p \in HtmlPieces}

\* html/tests.rs
SIMPLE_ESCAPED ==
    <<"[", "b", "]", "F", "o", "o", "<", "b", ">", "b", "a", "r", "[", "/",
    "b", "]", " ", "b", "a", "z", ".">>

HTML_SIMPLE ==
    <<"[", "t", "i", "t", "l", "e", "]", "T", "h", "i", "s", " ", "i", "s",
    " ", "a", " ", "t", "e", "s", "t", "!", "[", "/", "t", "i", "t", "l", "e",
    "]">>

\* the input the specification names for a tag left open with no writer
DANGLING_UNKNOWN ==
    <<"[", "f", "o", "o", "]", "b", "a", "r">>

\* two tags of two built-in writers, both left open
DANGLING_PAIR ==
    <<"[", "b", "]", "[", "i", "]">>

\* a tag of the writer that returns a rule, with a tag inside its range and
\* one after it
SPECIAL_RULE ==
    <<"[", "v", "]", "[", "b", "]", "[", "/", "v", "]", "[", "b", "]">>

HtmlInputs ==
    HtmlComposed(MaxHtmlPieces)
        \cup {SIMPLE_ESCAPED, HTML_SIMPLE, DANGLING_UNKNOWN, DANGLING_PAIR,
              SPECIAL_RULE}

\* the registries the serializer is built with: HtmlSerializer::empty, the
\* built-in tags, and one that holds two writers for the name b and the
\* writer that returns a rule
Registries ==
    {<<>>, all_core_v1_tags, <<LinebreakTag, BoldTag, StrongTag, VerbatimTag>>}

\* HtmlSerializer::custom, and a new parser for it to serialize
InitHtml ==
    /\ input \in HtmlInputs
    /\ with_config
    /\ tag_impls \in Registries
    /\ tag_cache = <<>>
    /\ phase = "new"
    /\ out = <<>>
    /\ calls = <<>>
    /\ visit = 0

\* BBParser::push_rule before the parser is handed to serialize(), with a
\* rule of the caller whose action is CustomParser and which releases on
\* the first token
push_custom_first ==
    /\ phase = "new"
    /\ rule_stack = <<>>
    /\ rule_stack' = <<CustomParserRule(TRUE)>>
    /\ UNCHANGED <<input, feature_flags, loc, open_tags, closed_tags, ret,
                   tokens, classified, ended, panic, custom_input>>
    /\ uncovered' = FALSE
    /\ UNCHANGED html_vars

\* serialize() is called with the parser
serialize ==
    /\ phase = "new"
    /\ phase' = "stream"
    /\ UNCHANGED <<input, feature_flags, loc, open_tags, closed_tags,
                   rule_stack, ret, tokens, classified, ended, panic,
                   custom_input, uncovered, tag_impls, tag_cache, out, calls,
                   visit>>

\* serialize(), the head of its first loop: the parser is asked for the
\* next token; at None the tags left open are visited, if there are any
serialize_next ==
    /\ phase = "stream"
    /\ next
    /\ phase' = IF panic' # "none" THEN phase
                ELSE IF ret' # <<>> THEN "render"
                ELSE IF open_tags' = <<>> THEN "done"
                ELSE "dangling"
    /\ UNCHANGED <<tag_impls, tag_cache, out, calls, visit>>

\* a faulty variant: the writer is asked for a rule and the rule is dropped
serialize_token_drops_rule ==
    /\ phase = "render"
    /\ panic = "none"
    /\ LET tk == ret[1]
           writer ==
               IF for_tag_writer(tk)
               THEN get_writer_for_tag(tag_cache, tag_impls, tag_name(tk)[1])
               ELSE <<>>
       IN  IF writer = <<>>
           THEN /\ out' = out \o write_token(tk)
                /\ calls' = Append(calls, Call("write_token", 0, tk, <<>>))
                /\ phase' = "stream"
                /\ UNCHANGED <<rule_stack, panic>>
           ELSE IF tk.kind = "Close" /\ tk.idx >= Len(closed_tags)
           THEN /\ panic' = "index out of bounds"
                /\ UNCHANGED <<out, calls, phase, rule_stack>>
           ELSE LET w == tag_impls[writer[1]]
                    r == try_special(w, tk)
                IN  /\ out' = out \o
                           (IF tk.kind = "Open" THEN open_tag(w, tk)
                            ELSE IF tk.kind = "Close"
                            THEN close_tag(w, closed_tags[tk.idx + 1], tk)
                            ELSE standalone_tag(w, tk))
                    /\ calls' = calls \o
                           <<IF tk.kind = "Open"
                             THEN Call("open_tag", writer[1], tk, <<>>)
                             ELSE IF tk.kind = "Close"
                             THEN Call("close_tag", writer[1], tk,
                                       <<closed_tags[tk.idx + 1]>>)
                             ELSE Call("standalone_tag", writer[1], tk, <<>>),
                             Call("try_special", writer[1], tk, <<>>)>>
                    /\ rule_stack' = rule_stack
                    /\ phase' = "stream"
                    /\ UNCHANGED panic
    /\ UNCHANGED <<input, feature_flags, loc, open_tags, closed_tags, ret,
                   tokens, classified, ended, custom_input, tag_impls,
                   tag_cache, visit>>
    /\ uncovered' = (uncovered /\ rule_stack' = rule_stack)

\* serialize(), the body of its first loop on the token the parser returned
serialize_token ==
    /\ phase = "render"
    /\ panic = "none"
    /\ LET tk == ret[1]
           writer ==
               IF for_tag_writer(tk)
               THEN get_writer_for_tag(tag_cache, tag_impls, tag_name(tk)[1])
               ELSE <<>>
       IN  IF writer = <<>>
           THEN /\ out' = out \o write_token(tk)
                /\ calls' = Append(calls, Call("write_token", 0, tk, <<>>))
                /\ phase' = "stream"
                /\ UNCHANGED <<rule_stack, panic>>
           ELSE IF tk.kind = "Close" /\ tk.idx >= Len(closed_tags)
           THEN /\ panic' = "index out of bounds"
                /\ UNCHANGED <<out, calls, phase, rule_stack>>
           ELSE LET w == tag_impls[writer[1]]
                    r == try_special(w, tk)
                IN  /\ out' = out \o
                           (IF tk.kind = "Open" THEN open_tag(w, tk)
                            ELSE IF tk.kind = "Close"
                            THEN close_tag(w, closed_tags[tk.idx + 1], tk)
                            ELSE standalone_tag(w, tk))
                    /\ calls' = calls \o
                           <<IF tk.kind = "Open"
                             THEN Call("open_tag", writer[1], tk, <<>>)
                             ELSE IF tk.kind = "Close"
                             THEN Call("close_tag", writer[1], tk,
                                       <<closed_tags[tk.idx + 1]>>)
                             ELSE Call("standalone_tag", writer[1], tk, <<>>),
                             Call("try_special", writer[1], tk, <<>>)>>
                    /\ rule_stack' = IF r = <<>> THEN rule_stack
                                     ELSE push_rule_obj(rule_stack, r[1])
                    /\ phase' = "stream"
                    /\ UNCHANGED panic
    /\ UNCHANGED <<input, feature_flags, loc, open_tags, closed_tags, ret,
                   tokens, classified, ended, custom_input, tag_impls,
                   tag_cache, visit>>
    /\ uncovered' = (uncovered /\ rule_stack' = rule_stack)

\* a faulty variant: a tag left open that has no writer is passed over
serialize_dangling_skips ==
    /\ phase = "dangling"
    /\ panic = "none"
    /\ visit < Len(open_tags)
    /\ LET tk == open_tags[visit + 1]
           writer == get_writer_for_tag(tag_cache, tag_impls, tag_name(tk)[1])
       IN  IF writer = <<>>
           THEN UNCHANGED <<out, calls, panic>>
           ELSE IF tk.kind # "Open"
           THEN /\ panic' = "unreachable"
                /\ UNCHANGED <<out, calls>>
           ELSE /\ out' = out \o
                       close_tag(tag_impls[writer[1]], tk, fake_close(tk))
                /\ calls' = Append(calls,
                       Call("close_tag", writer[1], fake_close(tk), <<tk>>))
                /\ UNCHANGED panic
    /\ visit' = visit + 1
    /\ phase' = IF visit + 1 = Len(open_tags) THEN "done" ELSE "dangling"
    /\ UNCHANGED <<input, feature_flags, loc, open_tags, closed_tags,
                   rule_stack, ret, tokens, classified, ended, custom_input,
                   uncovered, tag_impls, tag_cache>>

\* serialize(), the body of its second loop on the next tag left open
serialize_dangling ==
    /\ phase = "dangling"
    /\ panic = "none"
    /\ visit < Len(open_tags)
    /\ LET tk == open_tags[visit + 1]
           writer == get_writer_for_tag(tag_cache, tag_impls, tag_name(tk)[1])
       IN  IF writer = <<>>
           THEN /\ out' = out \o write_token(tk)
                /\ calls' = Append(calls, Call("write_token", 0, tk, <<>>))
                /\ UNCHANGED panic
           ELSE IF tk.kind # "Open"
           THEN /\ panic' = "unreachable"
                /\ UNCHANGED <<out, calls>>
           ELSE /\ out' = out \o
                       close_tag(tag_impls[writer[1]], tk, fake_close(tk))
                /\ calls' = Append(calls,
                       Call("close_tag", writer[1], fake_close(tk), <<tk>>))
                /\ UNCHANGED panic
    /\ visit' = visit + 1
    /\ phase' = IF visit + 1 = Len(open_tags) THEN "done" ELSE "dangling"
    /\ UNCHANGED <<input, feature_flags, loc, open_tags, closed_tags,
                   rule_stack, ret, tokens, classified, ended, custom_input,
                   uncovered, tag_impls, tag_cache>>

NextHtml ==
    \/ push_custom_first
    \/ serialize
    \/ serialize_next
    \/ serialize_token
    \/ serialize_dangling

\* HtmlSerializer::serialize on a parser that returned no token yet
SpecHtml == InitHtml /\ [][NextHtml]_vars

\* a parser that its caller drives, or one handed to serialize()
InitDriven == Init \/ InitHtml

NextDriven ==
    \/ phase = "idle" /\ next /\ UNCHANGED html_vars
    \/ phase = "idle" /\ push_rule /\ UNCHANGED html_vars
    \/ push_custom_first
    \/ serialize
    \/ serialize_next
    \/ serialize_token
    \/ serialize_dangling

\* the runs of Spec and those of SpecHtml
SpecDriven == InitDriven /\ [][NextDriven]_vars

\* the inputs of the runs that are followed to their end are made of at
\* most MaxPlainPieces of PlainPieces
PlainPieces ==
    {<<"[", "b", "]">>, <<"[", "/", "b", "]">>, <<"[", "a", "]">>, <<"[">>}

RECURSIVE PlainComposed(_)
PlainComposed(n) ==
    IF n = 0 THEN {<<>>}
    ELSE PlainComposed(n - 1)
             \cup {s \o p : s \in PlainComposed(n - 1), p \in PlainPieces}

PlainInputs ==
    PlainComposed(MaxPlainPieces) \cup {SPECIAL_RULE, SIMPLE_ESCAPED, CASE_OPEN}

\* a parser over one of these inputs that its caller drives, or one handed
\* to serialize()
InitPlain ==
    /\ input \in PlainInputs
    /\ with_config
    /\ \/ no_serializer
       \/ /\ tag_impls \in Registries
          /\ tag_cache = <<>>
          /\ phase = "new"
          /\ out = <<>>
          /\ calls = <<>>
          /\ visit = 0

\* the same without a rule whose action is CustomParser
NextPlain ==
    \/ phase = "idle" /\ next /\ UNCHANGED html_vars
    \/ phase = "idle" /\ push_rule /\ UNCHANGED html_vars
    \/ serialize
    \/ serialize_next
    \/ serialize_token
    \/ serialize_dangling

\* the caller of the parser and serialize() go on while they can: the loops
\* over next() and over the tags left open are not abandoned
SpecPlain == InitPlain /\ [][NextPlain]_vars /\ WF_vars(NextPlain)

----------------------------------------------------------------------------
(* Helpers of the properties *)

RECURSIVE ConcatSpans(_)
ConcatSpans(ts) ==
    IF ts = <<>> THEN <<>> ELSE Head(ts).span \o ConcatSpans(Tail(ts))

\* the end of token t in the input
EndOf(t) == t.start + Len(t.span)

\* the input from offset a on
Rest(a) == Slice(input, a, Len(input))

\* the step is a next() call that returned a token
Returned == Len(tokens') = Len(tokens) + 1

\* the step is not a push_rule call
NotPush == Len(rule_stack') <= Len(rule_stack)

\* no token was returned as Text that the scanner classified as a tag
NothingSuppressed ==
    \A i \in 1..Len(tokens) : tokens[i].kind = classified[i].kind

----------------------------------------------------------------------------
(* C1: the tokens returned up to the first None are contiguous and        *)
(* exhaustive: the first starts at 0, each starts where the one before it  *)
(* ends, each span is the input at its start, the spans returned so far    *)
(* make up the input up to the cursor, and all of it once None is returned *)
C1_SpanCoverage ==
    /\ \A i \in 1..Len(tokens) :
        /\ tokens[i].start = IF i = 1 THEN 0 ELSE EndOf(tokens[i - 1])
        /\ EndOf(tokens[i]) <= Len(input)
        /\ tokens[i].span = Slice(input, tokens[i].start, EndOf(tokens[i]))
    /\ loc <= Len(input)
    /\ ConcatSpans(tokens) = Slice(input, 0, loc)
    /\ ended => ConcatSpans(tokens) = input

C1_Witness ==
    /\ ended
    /\ Len(tokens) >= 3
    /\ feature_flags # {}
    /\ \E i \in 1..Len(tokens) :
        classified[i].kind = "Close" /\ tokens[i].kind = "Text"
    /\ \E i \in 1..Len(tokens) : tokens[i].kind = "Open"

(* C2: next() returns None exactly when the cursor is at or past the end  *)
(* of the input when it is called, whatever is on the rule stack; and once *)
(* it has returned None every later call returns None and leaves cursor,   *)
(* open_tags, closed_tags and the rule stack as they are                   *)
C2_NoneAtEnd ==
    /\ [][NotPush => ((ret' = <<>>) <=> (loc >= Len(input)))]_vars
    /\ [][ended => /\ ret' = <<>>
                   /\ ended'
                   /\ UNCHANGED <<loc, open_tags, closed_tags>>
                   /\ NotPush => UNCHANGED rule_stack]_vars

C2_Witness ==
    /\ ended
    /\ ret = <<>>
    /\ rule_stack # <<>>
    /\ tokens # <<>>
    /\ loc = Len(input)

(* C3, as claimed: every input without '[' yields exactly one token, a    *)
(* Text token whose span is the whole input and whose args() is None, and  *)
(* then None                                                               *)
C3_Original ==
    find(input, {"["}) = NoneIdx =>
        /\ Len(tokens) <= 1
        /\ ended => Len(tokens) = 1
        /\ tokens # <<>> =>
            /\ tokens[1].kind = "Text"
            /\ tokens[1].span = input
            /\ token_args(tokens[1]) = <<>>
            /\ at_end(input, loc)

(* C3, amended: every input without '[' that is not empty yields exactly  *)
(* one token, a Text token whose span is the whole input and whose args()  *)
(* is None, and then None; the empty input yields None at once             *)
C3_PlainText ==
    find(input, {"["}) = NoneIdx =>
        /\ Len(tokens) <= 1
        /\ ended => Len(tokens) = (IF input = <<>> THEN 0 ELSE 1)
        /\ tokens # <<>> =>
            /\ tokens[1].kind = "Text"
            /\ tokens[1].span = input
            /\ token_args(tokens[1]) = <<>>
            /\ at_end(input, loc)

C3_Witness ==
    /\ find(input, {"["}) = NoneIdx
    /\ find(input, {"]"}) # NoneIdx
    /\ Len(input) >= 3
    /\ ended
    /\ Len(tokens) = 1

\* token i was scanned at a '[' with no ']' in the rest of the input
Unterminated(i) ==
    /\ input[tokens[i].start + 1] = "["
    /\ find(Rest(tokens[i].start), {"]"}) = NoneIdx

(* C4, as claimed: at a '[' with no ']' in the rest of the input, next()  *)
(* returns one Text token whose span is all the remaining input            *)
C4_Original ==
    \A i \in 1..Len(tokens) :
        Unterminated(i) =>
            /\ tokens[i].kind = "Text"
            /\ tokens[i].span = Rest(tokens[i].start)

(* C4, amended: at a '[' with no ']' in the rest of the input, next()     *)
(* returns a Text token that runs from the cursor to just before the next  *)
(* '[' after it, and to the end of the input when there is none, in which  *)
(* case the cursor is at the end and the call after it returns None; the   *)
(* scanner classifies no token as a tag from there on                      *)
C4_UnterminatedTag ==
    \A i \in 1..Len(tokens) :
        Unterminated(i) =>
            LET nxt == find(Rest(tokens[i].start + 1), {"["})
            IN  /\ tokens[i].kind = "Text"
                /\ tokens[i].span =
                       IF nxt = NoneIdx THEN Rest(tokens[i].start)
                       ELSE Slice(input, tokens[i].start,
                                  tokens[i].start + 1 + nxt)
                /\ nxt = NoneIdx =>
                       i = Len(tokens) /\ at_end(input, loc)
                /\ \A j \in i..Len(tokens) : classified[j].kind = "Text"

C4_Witness ==
    /\ ended
    /\ \E i \in 1..Len(tokens) :
        /\ Unterminated(i)
        /\ i > 1
        /\ i < Len(tokens)

\* token i was scanned at a '[' whose text up to the first ']' after it
\* holds another '['
NestedOpener(i) ==
    LET st == tokens[i].start
        close == find(Rest(st + 1), {"]"})
    IN  /\ input[st + 1] = "["
        /\ close # NoneIdx
        /\ find(Slice(input, st + 1, st + 1 + close), {"["}) # NoneIdx

(* C5: at a '[' whose text up to the first ']' holds another '[', next()  *)
(* produces no tag: it returns a Text token from the first '[' to just     *)
(* before the second; so a span holds '[' at most once and only as its     *)
(* first character, and a token classified as a tag has a span that starts *)
(* with '[' and ends with the first ']' after it                           *)
C5_NoNestedOpener ==
    \A i \in 1..Len(tokens) :
        /\ NestedOpener(i) =>
            /\ classified[i].kind = "Text"
            /\ tokens[i].kind = "Text"
            /\ tokens[i].span =
                   Slice(input, tokens[i].start,
                         tokens[i].start + 1
                             + find(Rest(tokens[i].start + 1), {"["}))
        /\ \A j \in 2..Len(tokens[i].span) : tokens[i].span[j] # "["
        /\ classified[i].kind # "Text" =>
            /\ tokens[i].span[1] = "["
            /\ find(tokens[i].span, {"]"}) = Len(tokens[i].span) - 1

C5_Witness ==
    /\ ended
    /\ \E i \in 1..Len(tokens) :
        /\ NestedOpener(i)
        /\ i < Len(tokens)
        /\ classified[i + 1].kind # "Text"

----------------------------------------------------------------------------
(* The tag contents as the claims describe them *)

\* the text between the brackets of a tag token
Inner(t) == SubSeq(t.span, 2, Len(t.span) - 1)

\* c without its leading and trailing spaces
RECURSIVE Unpadded(_)
Unpadded(c) ==
    IF c # <<>> /\ c[1] = " " THEN Unpadded(Tail(c))
    ELSE IF c # <<>> /\ c[Len(c)] = " "
    THEN Unpadded(SubSeq(c, 1, Len(c) - 1))
    ELSE c

\* the offset of the first '=' or ' ' of c, Len(c) when it has none
SeparatorOf(c) ==
    IF \E i \in 1..Len(c) : c[i] \in {"=", " "}
    THEN (CHOOSE i \in 1..Len(c) :
              c[i] \in {"=", " "} /\ \A j \in 1..(i - 1) : c[j] \notin {"=", " "})
         - 1
    ELSE Len(c)

\* the part of c before its separator
NameOf(c) == SubSeq(c, 1, SeparatorOf(c))

\* the part of c from its separator on, empty when it has none
RestOf(c) == SubSeq(c, SeparatorOf(c) + 1, Len(c))

HasSeparator(c) == SeparatorOf(c) < Len(c)

\* the part of c a trailing '/' is looked for in
Slashed(c) == IF HasSeparator(c) THEN RestOf(c) ELSE c

WithoutLast(c) == SubSeq(c, 1, Len(c) - 1)

IsCloseContent(c) == c # <<>> /\ c[1] = "/"

IsStandaloneContent(c) ==
    ~IsCloseContent(c) /\ Slashed(c) # <<>> /\ Slashed(c)[Len(Slashed(c))] = "/"

(* C6: with c the trimmed content of an accepted tag and (name, rest) its *)
(* split at the first '=' or ' ': a leading '/' makes a Close tag named by *)
(* name without the '/'; otherwise a trailing '/' of rest (of c when there *)
(* is no separator) makes a Standalone tag, the '/' removed; otherwise the *)
(* tag is an Open tag; the name may be empty                               *)
C6_TagKinds ==
    \A i \in 1..Len(classified) :
        LET t == classified[i]
            c == Unpadded(Inner(t))
        IN  t.kind # "Text" =>
                IF IsCloseContent(c)
                THEN t.kind = "Close" /\ t.tag = Tail(NameOf(c))
                ELSE IF IsStandaloneContent(c)
                THEN /\ t.kind = "Standalone"
                     /\ t.tag = IF HasSeparator(c) THEN NameOf(c)
                                ELSE WithoutLast(c)
                ELSE t.kind = "Open" /\ t.tag = NameOf(c)

\* a tag with a separator, a leading and a trailing '/'
C6_Witness ==
    \E i \in 1..Len(classified) :
        /\ classified[i].kind = "Close"
        /\ classified[i].tag = <<"a">>
        /\ HasSeparator(Unpadded(Inner(classified[i])))
        /\ classified[i].span[Len(classified[i].span) - 1] = "/"

\* the tags [] and [/], whose name is empty
C6_EmptyNameWitness ==
    \E i \in 1..Len(classified) :
        /\ classified[i].tag = <<>>
        /\ classified[i].span \in {<<"[", "]">>, <<"[", "/", "]">>}

\* the names the name predicates are asked about
TestNames ==
    {<<>>, <<"a">>, <<"A">>, <<"o", "p", "e", "n">>,
     <<"c", "l", "o", "s", "e">>,
     <<"s", "t", "a", "n", "d", "a", "l", "o", "n", "e">>}

OnlySpaces(a) == \A j \in 1..Len(a) : a[j] = " "

(* C7: the raw args of a tag token are its content from the first '=' or  *)
(* ' ' on, separator included, without the trailing '/' of a Standalone    *)
(* tag, and empty without a separator; args() is None exactly for a token  *)
(* that is no tag or whose raw args are empty or blank, and the trimmed    *)
(* raw args otherwise; is_*_argless(name) holds exactly when is_*(name)    *)
(* holds and args() is None                                                *)
C7_Args ==
    /\ \A i \in 1..Len(classified) :
        LET t == classified[i]
            c == Unpadded(Inner(t))
        IN  t.kind # "Text" =>
                t.args = IF ~HasSeparator(c) THEN <<>>
                         ELSE IF t.kind = "Standalone" THEN WithoutLast(RestOf(c))
                         ELSE RestOf(c)
    /\ \A i \in 1..Len(tokens) :
        LET t == tokens[i]
        IN  /\ (token_args(t) = <<>>) <=> (t.kind = "Text" \/ OnlySpaces(t.args))
            /\ token_args(t) # <<>> => token_args(t) = <<Unpadded(t.args)>>
            /\ t.kind # "Text" =>
                   /\ t.tag = classified[i].tag
                   /\ t.args = classified[i].args
            /\ \A n \in TestNames :
                /\ is_open_argless(t, n) <=>
                       (is_open(t, n) /\ token_args(t) = <<>>)
                /\ is_close_argless(t, n) <=>
                       (is_close(t, n) /\ token_args(t) = <<>>)
                /\ is_standalone_argless(t, n) <=>
                       (is_standalone(t, n) /\ token_args(t) = <<>>)
    \* parser/tests.rs, tag_kinds
    /\ (input = TAG_KINDS /\ Len(tokens) = 9 /\ NothingSuppressed) =>
        /\ is_open_argless(tokens[1],
               <<"o", "p", "e", "n", "_", "a", "r", "g", "l", "e", "s", "s">>)
        /\ \A i \in {2, 3} :
            /\ is_open(tokens[i], <<"o", "p", "e", "n">>)
            /\ ~is_open_argless(tokens[i], <<"o", "p", "e", "n">>)
        /\ is_close_argless(tokens[4],
               <<"c", "l", "o", "s", "e", "_", "a", "r", "g", "l", "e", "s", "s">>)
        /\ \A i \in {5, 6} :
            /\ is_close(tokens[i], <<"c", "l", "o", "s", "e">>)
            /\ ~is_close_argless(tokens[i], <<"c", "l", "o", "s", "e">>)
        /\ is_standalone_argless(tokens[7],
               <<"s", "t", "a", "n", "d", "a", "l", "o", "n", "e", "_",
                 "a", "r", "g", "l", "e", "s", "s">>)
        /\ \A i \in {8, 9} :
            /\ is_standalone(tokens[i],
                   <<"s", "t", "a", "n", "d", "a", "l", "o", "n", "e">>)
            /\ ~is_standalone_argless(tokens[i],
                   <<"s", "t", "a", "n", "d", "a", "l", "o", "n", "e">>)

\* the run of tag_kinds under POP_UNORDERED
C7_Witness ==
    /\ input = TAG_KINDS
    /\ feature_flags = {POP_UNORDERED}
    /\ Len(tokens) = 9
    /\ NothingSuppressed
    /\ token_args(tokens[2]) = <<<<"a", "r", "g", "s">>>>
    /\ token_args(tokens[9]) = <<<<"=", "a", "r", "g", "s">>>>

\* a standalone tag whose raw arguments are blank
C7_BlankWitness ==
    \E i \in 1..Len(tokens) :
        /\ tokens[i].kind = "Standalone"
        /\ tokens[i].args = <<" ">>
        /\ is_standalone_argless(tokens[i], <<"a">>)

\* what the scanner makes of the tag [c]
Classification(c) == scan(<<"[">> \o c \o <<"]">>, 0).token

(* C8: spaces between the brackets and the tag content do not change the  *)
(* classification and are not left for the next token: the tag token has   *)
(* the kind, name and raw args of the tag without the padding (none when   *)
(* the content has no separator), its span runs from '[' through the       *)
(* closing ']', and the token after it starts right after that ']'         *)
C8_Padding ==
    \A i \in 1..Len(classified) :
        LET t == classified[i]
            u == Classification(Unpadded(Inner(t)))
        IN  t.kind # "Text" =>
                /\ t.kind = u.kind
                /\ t.tag = u.tag
                /\ t.args = u.args
                /\ ~HasSeparator(Unpadded(Inner(t))) => token_args(t) = <<>>
                /\ t.span[1] = "["
                /\ t.span[Len(t.span)] = "]"
                /\ find(t.span, {"]"}) = Len(t.span) - 1
                /\ t.span = tokens[i].span
                /\ i < Len(tokens) => tokens[i + 1].start = EndOf(t)
                /\ i = Len(tokens) => loc = EndOf(t)

\* a tag padded on both sides and followed by another token
C8_Witness ==
    \E i \in 1..Len(classified) :
        /\ classified[i].kind = "Open"
        /\ classified[i].tag # <<>>
        /\ Inner(classified[i])[1] = " "
        /\ Inner(classified[i])[Len(Inner(classified[i]))] = " "
        /\ i < Len(tokens)

\* a and b differ in ASCII letter case at most
SameUpToCase(a, b) ==
    /\ Len(a) = Len(b)
    /\ \A i \in 1..Len(a) :
        \/ a[i] = b[i]
        \/ \E k \in 1..Len(UpperCase) :
            {a[i], b[i]} = {UpperCase[k], LowerCase[k]}

\* names in both letter cases, and the pairs that differ in letter case only
CaseNames ==
    {<<"a">>, <<"A">>, <<"b">>, <<"B">>, <<"b", "o", "l", "d">>,
     <<"B", "o", "l", "d">>, <<"B", "O", "L", "D">>}

CasePairs ==
    {<<<<"a">>, <<"A">>>>, <<<<"b">>, <<"B">>>>,
     <<<<"b", "o", "l", "d">>, <<"B", "o", "l", "d">>>>,
     <<<<"b", "o", "l", "d">>, <<"B", "O", "L", "D">>>>,
     <<<<"B", "o", "l", "d">>, <<"B", "O", "L", "D">>>>}

\* the token the step returned, as the scanner classified it
Scanned == classified'[Len(classified')]

\* the step is a next() call whose token reached tag tracking as a Close tag
TrackedClose == Returned /\ Scanned.kind = "Close" /\ rule_stack' = <<>>

\* the step returned a resolved Close tag
Resolved == ret'[1].kind = "Close" /\ ret'[1].idx # NoneIdx

\* the step moved the top of the open stack to the end of the closed list
TopClosed ==
    /\ open_tags' = WithoutLast(open_tags)
    /\ closed_tags' = Append(closed_tags, open_tags[Len(open_tags)])

(* C9: tag names are compared ASCII case-insensitively: is_open, is_close *)
(* and is_standalone answer alike for two names that differ in letter case *)
(* only, and a Close tag resolves against the Open tag on top of the open  *)
(* stack when their names differ in letter case only ([B]x[/b] resolves)   *)
C9_CaseInsensitive ==
    /\ [](\A i \in 1..Len(tokens) :
            /\ \A p \in CasePairs :
                /\ is_open(tokens[i], p[1]) <=> is_open(tokens[i], p[2])
                /\ is_close(tokens[i], p[1]) <=> is_close(tokens[i], p[2])
                /\ is_standalone(tokens[i], p[1]) <=>
                       is_standalone(tokens[i], p[2])
            /\ \A n \in CaseNames :
                SameUpToCase(tokens[i].tag, n) =>
                    /\ tokens[i].kind = "Open" => is_open(tokens[i], n)
                    /\ tokens[i].kind = "Close" => is_close(tokens[i], n)
                    /\ tokens[i].kind = "Standalone" =>
                           is_standalone(tokens[i], n))
    /\ [][(/\ TrackedClose
           /\ open_tags # <<>>
           /\ SameUpToCase(open_tags[Len(open_tags)].tag, Scanned.tag))
              => Resolved /\ TopClosed]_vars
    /\ []((input = CASE_RESOLVE /\ Len(tokens) = 3 /\ NothingSuppressed)
              => /\ tokens[3].kind = "Close"
                 /\ tokens[3].idx = 0
                 /\ open_tags = <<>>
                 /\ closed_tags = <<tokens[1]>>)

\* [B]x[/b] has resolved, and [BOLD] was returned
C9_Witness ==
    /\ input = CASE_RESOLVE
    /\ Len(tokens) = 3
    /\ tokens[1].tag = <<"B">>
    /\ tokens[3].tag = <<"b">>
    /\ tokens[3].idx = 0

(* C10: without POP_UNORDERED a Close tag resolves only against the top   *)
(* of the open stack: when the top has another name the close does not     *)
(* resolve, also when a deeper element has its name, and open stack and    *)
(* closed list stay as they are; in [a][b]x[/a][/b] under the default      *)
(* configuration [/a] is returned unresolved, [/b] resolves against [b]    *)
(* and [a] is still open at the end                                        *)
C10_OrderedPop ==
    /\ [][(TrackedClose /\ POP_UNORDERED \notin feature_flags) =>
            IF /\ open_tags # <<>>
               /\ SameUpToCase(open_tags[Len(open_tags)].tag, Scanned.tag)
            THEN Resolved /\ TopClosed
            ELSE ~Resolved /\ UNCHANGED <<open_tags, closed_tags>>]_vars
    /\ []((/\ input = STRICT_NESTING
           /\ feature_flags = {}
           /\ ended
           /\ NothingSuppressed)
              => /\ Len(tokens) = 5
                 /\ tokens[4].kind = "Close"
                 /\ tokens[4].tag = <<"a">>
                 /\ tokens[4].idx = NoneIdx
                 /\ tokens[5].kind = "Close"
                 /\ tokens[5].idx = 0
                 /\ closed_tags = <<tokens[2]>>
                 /\ open_tags = <<tokens[1]>>)

\* a close tag was refused although a deeper open tag has its name
C10_Witness ==
    /\ POP_UNORDERED \notin feature_flags
    /\ ret # <<>>
    /\ ret[1].kind = "Close"
    /\ ret[1].idx = NoneIdx
    /\ Len(open_tags) >= 2
    /\ ~SameUpToCase(open_tags[Len(open_tags)].tag, ret[1].tag)
    /\ \E k \in 1..(Len(open_tags) - 1) : open_tags[k].tag = ret[1].tag

\* the places of the open stack whose name is that of the close tag scanned
Matches ==
    {k \in 1..Len(open_tags) : SameUpToCase(open_tags[k].tag, Scanned.tag)}

\* the last of the places ks
Last(ks) == CHOOSE m \in ks : \A k \in ks : k <= m

\* the step moved place m of the open stack to the end of the closed list
\* and left the other places in their order
Closed(m) ==
    /\ open_tags' = SubSeq(open_tags, 1, m - 1)
                        \o SubSeq(open_tags, m + 1, Len(open_tags))
    /\ closed_tags' = Append(closed_tags, open_tags[m])

(* C11: with POP_UNORDERED a Close tag resolves against the most recently *)
(* opened element of the open stack that has its name, at any depth; that  *)
(* element alone leaves the open stack and the others keep their order;    *)
(* the close fails to resolve only when no element has its name; in        *)
(* [a][b]x[/a][/b] [/a] resolves against the deeper [a] while [b] is open  *)
C11_UnorderedPop ==
    /\ [][(TrackedClose /\ POP_UNORDERED \in feature_flags) =>
            IF Matches = {}
            THEN ~Resolved /\ UNCHANGED <<open_tags, closed_tags>>
            ELSE Resolved /\ Closed(Last(Matches))]_vars
    /\ []((/\ input = STRICT_NESTING
           /\ POP_UNORDERED \in feature_flags
           /\ Len(tokens) >= 4
           /\ NothingSuppressed)
              => /\ tokens[4].kind = "Close"
                 /\ tokens[4].idx = 0
                 /\ closed_tags[1] = tokens[1]
                 /\ Len(tokens) = 4 => open_tags = <<tokens[2]>>)

\* a close tag resolved against an element below the top of the open stack
C11_Witness ==
    /\ POP_UNORDERED \in feature_flags
    /\ ret # <<>>
    /\ ret[1].kind = "Close"
    /\ ret[1].idx # NoneIdx
    /\ open_tags # <<>>
    /\ open_tags[Len(open_tags)].start > closed_tags[Len(closed_tags)].start

\* a close tag resolved against the later of two elements of its name
C11_LaterOfTwoWitness ==
    /\ POP_UNORDERED \in feature_flags
    /\ ret # <<>>
    /\ ret[1].kind = "Close"
    /\ ret[1].idx # NoneIdx
    /\ \E k \in 1..Len(open_tags) :
        /\ open_tags[k].tag = ret[1].tag
        /\ open_tags[k].start < closed_tags[Len(closed_tags)].start

\* token i is a Close tag returned with an index of the closed list
ResolvedAt(i) == tokens[i].kind = "Close" /\ tokens[i].idx # NoneIdx

(* C12: a Close tag that resolves moves the Open tag it matched from the  *)
(* open stack to the end of the closed list and is returned with the index *)
(* of that new entry; the closed list is only ever appended to, so for     *)
(* every Close tag returned with an index i, i is an index of closed_tags  *)
(* from then on, closed_tags[i] is an Open tag returned before it, of the  *)
(* same name up to letter case and of a smaller start, and no two returned *)
(* Close tags carry the same index                                         *)
C12_ClosedIndex ==
    /\ [](\A i \in 1..Len(tokens) :
            ResolvedAt(i) =>
                /\ tokens[i].idx \in 0..(Len(closed_tags) - 1)
                /\ LET o == closed_tags[tokens[i].idx + 1]
                   IN  /\ o.kind = "Open"
                       /\ SameUpToCase(o.tag, tokens[i].tag)
                       /\ o.start < tokens[i].start
                       /\ \E j \in 1..(i - 1) : tokens[j] = o
                /\ \A j \in 1..Len(tokens) :
                    (j # i /\ ResolvedAt(j)) => tokens[j].idx # tokens[i].idx)
    /\ [][(Returned /\ Resolved) =>
            /\ \E m \in 1..Len(open_tags) :
                /\ Closed(m)
                /\ SameUpToCase(open_tags[m].tag, ret'[1].tag)
            /\ ret'[1].idx = Len(closed_tags)]_vars
    /\ [][/\ Len(closed_tags') >= Len(closed_tags)
          /\ SubSeq(closed_tags', 1, Len(closed_tags)) = closed_tags]_vars

\* two Close tags were returned with the indices 0 and 1
C12_Witness ==
    /\ Len(closed_tags) = 2
    /\ \E i, j \in 1..Len(tokens) :
        /\ ResolvedAt(i)
        /\ ResolvedAt(j)
        /\ tokens[i].idx = 0
        /\ tokens[j].idx = 1

\* the open stack holds an element the close tag scanned may resolve against
CanResolve ==
    IF POP_UNORDERED \in feature_flags THEN Matches # {}
    ELSE /\ open_tags # <<>>
         /\ SameUpToCase(open_tags[Len(open_tags)].tag, Scanned.tag)

(* C13: a Close tag that does not resolve is returned as a Text token     *)
(* under UNMATCHED_CLOSE_AS_TEXT and as a Close tag of its name and args   *)
(* with no index otherwise; in both cases span and start are those of the  *)
(* close tag, open stack and closed list stay as they are, and the parser  *)
(* raises no error                                                         *)
C13_UnmatchedClose ==
    /\ [][(TrackedClose /\ ~CanResolve) =>
            /\ ret'[1].span = Scanned.span
            /\ ret'[1].start = Scanned.start
            /\ ret'[1].idx = NoneIdx
            /\ IF UNMATCHED_CLOSE_AS_TEXT \in feature_flags
               THEN ret'[1].kind = "Text"
               ELSE /\ ret'[1].kind = "Close"
                    /\ ret'[1].tag = Scanned.tag
                    /\ ret'[1].args = Scanned.args
            /\ UNCHANGED <<open_tags, closed_tags>>]_vars
    /\ [][(/\ NotPush
           /\ ~at_end(input, loc)
           /\ rule_stack = <<>>
           /\ scan(input, loc).token.kind = "Close") => Returned]_vars
    /\ [](panic = "none")

\* a close tag was returned as text while a tag was open
C13_Witness ==
    /\ UNMATCHED_CLOSE_AS_TEXT \in feature_flags
    /\ rule_stack = <<>>
    /\ open_tags # <<>>
    /\ ret # <<>>
    /\ ret[1].kind = "Text"
    /\ classified[Len(classified)].kind = "Close"

\* a close tag with args was returned unresolved
C13_UnresolvedWitness ==
    /\ UNMATCHED_CLOSE_AS_TEXT \notin feature_flags
    /\ ret # <<>>
    /\ ret[1].kind = "Close"
    /\ ret[1].idx = NoneIdx
    /\ ret[1].args # <<>>

\* the top of the rule stack before the step is a NoParse rule
NoParseOnTop ==
    rule_stack # <<>> /\ rule_stack[Len(rule_stack)].action = "NoParse"

\* the token scanned is the close tag the NoParse rule on top waits for
Terminating ==
    /\ Scanned.kind = "Close"
    /\ SameUpToCase(Scanned.tag, rule_stack[Len(rule_stack)].tag_name)

\* the step returned the token as the scanner classified it, a close tag
\* that does not resolve being text under UNMATCHED_CLOSE_AS_TEXT
AsClassified ==
    IF /\ Scanned.kind = "Close"
       /\ ~CanResolve
       /\ UNMATCHED_CLOSE_AS_TEXT \in feature_flags
    THEN ret'[1].kind = "Text"
    ELSE ret'[1].kind = Scanned.kind

(* C14: while a NoParse rule for the name n is on top of the rule stack,  *)
(* every token next() returns is a Text token of the span scanned,         *)
(* whatever the scanner classified it as, and open_tags, closed_tags and   *)
(* the rule stack stay as they are, until the scanner classifies a token   *)
(* as a Close tag of the name n up to letter case; that call pops the      *)
(* rule, and with no rule left tokens are returned as classified; so the   *)
(* close tag of an outer open tag inside the range does not close it, as   *)
(* in the test no_parse_rule, where [ bar ] is still open at the end       *)
C14_NoParse ==
    /\ [][(Returned /\ NoParseOnTop) =>
            IF Terminating THEN rule_stack' = WithoutLast(rule_stack)
            ELSE /\ ret'[1].kind = "Text"
                 /\ ret'[1].span = Scanned.span
                 /\ ret'[1].start = Scanned.start
                 /\ UNCHANGED <<open_tags, closed_tags, rule_stack>>]_vars
    /\ [][(Returned /\ rule_stack' = <<>>) => AsClassified]_vars
    /\ []((/\ input = NO_PARSE_RULE
           /\ feature_flags = {POP_UNORDERED}
           /\ ended
           /\ tokens[3].kind = "Open"
           /\ tokens[5].kind = "Text"
           /\ tokens[9].kind = "Close")
              => /\ \A i \in 4..8 : tokens[i].kind = "Text"
                 /\ classified[7].kind = "Open"
                 /\ tokens[9].idx = 0
                 /\ closed_tags = <<tokens[3]>>
                 /\ open_tags = <<tokens[1]>>
                 /\ is_open(tokens[1], <<"b", "a", "r">>))

\* the close tag of the open tag on top of the open stack was returned as
\* text under a NoParse rule of another name
C14_Witness ==
    /\ rule_stack # <<>>
    /\ ret # <<>>
    /\ ret[1].kind = "Text"
    /\ classified[Len(classified)].kind = "Close"
    /\ open_tags # <<>>
    /\ SameUpToCase(open_tags[Len(open_tags)].tag,
                    classified[Len(classified)].tag)

\* the run of the test no_parse_rule under POP_UNORDERED
C14_TestWitness ==
    /\ input = NO_PARSE_RULE
    /\ feature_flags = {POP_UNORDERED}
    /\ ended
    /\ tokens[3].kind = "Open"
    /\ tokens[5].kind = "Text"
    /\ tokens[9].kind = "Close"

\* the step is a next() call with one rule on the stack, a NoParse rule,
\* that returned the close tag the rule waits for
Released ==
    /\ Returned
    /\ Len(rule_stack) = 1
    /\ NoParseOnTop
    /\ Terminating

\* the step is a push_rule call for the Open tag the last call returned
PushedForOpen ==
    /\ Len(rule_stack') = Len(rule_stack) + 1
    /\ ret # <<>>
    /\ ret[1].kind = "Open"
    /\ SameUpToCase(ret[1].tag, rule_stack'[Len(rule_stack')].tag_name)

(* C15, as claimed: with a single NoParse rule on the rule stack and the  *)
(* token just classified being the Close tag it waits for, the rule is     *)
(* popped in that call and the token is returned as a Close tag, not Text  *)
C15_Original ==
    [][Released => (rule_stack' = <<>> /\ ret'[1].kind = "Close")]_vars

(* C15, amended: with a single NoParse rule on the rule stack and the     *)
(* token just classified being the Close tag it waits for, the rule is     *)
(* popped in that call and the rule step leaves the token a Close tag: the *)
(* release is decided on the token as classified; the token then goes      *)
(* through tag tracking, which returns it as a Close tag, resolved when    *)
(* the open stack has an element for it, and as Text only when it does not *)
(* resolve under UNMATCHED_CLOSE_AS_TEXT; a rule pushed right after its    *)
(* own Open tag was returned finds that tag on top of the open stack, and  *)
(* the close tag resolves against it and moves it to closed_tags           *)
C15_Release ==
    /\ [][Released =>
            /\ rule_stack' = <<>>
            /\ AsClassified
            /\ ret'[1].span = Scanned.span
            /\ CanResolve <=> Resolved
            /\ (/\ open_tags # <<>>
                /\ SameUpToCase(open_tags[Len(open_tags)].tag, Scanned.tag))
                   => /\ Resolved
                      /\ TopClosed
                      /\ ret'[1].idx = Len(closed_tags)]_vars
    /\ [][PushedForOpen =>
            /\ open_tags # <<>>
            /\ open_tags[Len(open_tags)] = ret[1]
            /\ UNCHANGED <<open_tags, closed_tags>>]_vars

\* the close tag of a NoParse rule was returned resolved against the Open
\* tag of its name, after an Open tag was returned as text
C15_Witness ==
    /\ rule_stack = <<>>
    /\ Len(tokens) >= 3
    /\ ret # <<>>
    /\ ret[1].kind = "Close"
    /\ ret[1].idx # NoneIdx
    /\ classified[Len(tokens) - 1].kind = "Open"
    /\ tokens[Len(tokens) - 1].kind = "Text"
    /\ closed_tags[ret[1].idx + 1] = tokens[Len(tokens) - 2]

(* C16, as claimed: when the transform_token of the rule on top of the    *)
(* rule stack returns false for the token just produced, next() removes    *)
(* that rule from the rule stack                                           *)
C16_PopOnFalse ==
    [][(/\ Returned
        /\ rule_stack # <<>>
        /\ ~transform_token(rule_stack[Len(rule_stack)], Scanned))
           => rule_stack' = WithoutLast(rule_stack)]_vars

\* what next() does: the rule on top is removed when its transform_token
\* returns true, and stays when it returns false
PopOnTrue ==
    [][(Returned /\ rule_stack # <<>>) =>
            IF transform_token(rule_stack[Len(rule_stack)], Scanned)
            THEN rule_stack' = WithoutLast(rule_stack)
            ELSE UNCHANGED rule_stack]_vars

\* a rule is on the stack after a call whose token it returned false for
C16_Witness ==
    /\ rule_stack # <<>>
    /\ ret # <<>>
    /\ classified[Len(classified)].kind = "Open"
    /\ ~transform_token(rule_stack[Len(rule_stack)],
                        classified[Len(classified)])

\* the step is a next() call under a rule whose action is CustomParser
CustomStep ==
    /\ NotPush
    /\ ~at_end(input, loc)
    /\ rule_stack # <<>>
    /\ rule_stack[Len(rule_stack)].action = "CustomParser"

(* C17, as claimed: while the action of the rule on top is CustomParser,  *)
(* next() does no bracket scanning: it returns the token of the rule's     *)
(* parse_custom, the rule is handed the input from the cursor on, and the  *)
(* cursor advances by the length of the span of the token returned         *)
C17_CustomParser ==
    [][CustomStep =>
        /\ Returned
        /\ custom_input' = <<Rest(loc)>>
        /\ Scanned \in parse_custom(Rest(loc))
        /\ ret'[1] = Scanned
        /\ loc' = loc + Len(ret'[1].span)]_vars

\* what next() does: the rule is handed the input from its start, whatever
\* the cursor, and the cursor advances by the length of the span returned
CustomGivenInput ==
    [][CustomStep =>
        /\ Returned
        /\ custom_input' = <<input>>
        /\ Scanned \in parse_custom(input)
        /\ ret'[1] = Scanned
        /\ loc' = loc + Len(ret'[1].span)]_vars

\* a rule whose action is CustomParser was called with the cursor past the
\* start of the input
C17_Witness ==
    /\ custom_input = <<input>>
    /\ ret # <<>>
    /\ ret[1].kind = "Custom"
    /\ loc > Len(ret[1].span)
    /\ loc <= Len(input)

----------------------------------------------------------------------------
(* The serializer as the claims describe it *)

\* the places of the registry whose writer answers for the name
Answering(name) ==
    {i \in 1..Len(tag_impls) :
        \E k \in 1..Len(tag_impls[i].TAGS) :
            SameUpToCase(tag_impls[i].TAGS[k], name)}

\* the first of the places ks
First(ks) == CHOOSE m \in ks : \A k \in ks : m <= k

\* the step is the rendering of the token the parser returned
Rendered == phase = "render" /\ phase' = "stream"

\* the call the step made first
Made == calls'[Len(calls) + 1]

\* the writer calls without those of try_special
Renderings == SelectSeq(calls, LAMBDA c : c.hook # "try_special")

\* the hook of the tag writers for a token of the kind
HookOf(kind) ==
    IF kind = "Open" THEN "open_tag"
    ELSE IF kind = "Close" THEN "close_tag"
    ELSE "standalone_tag"

(* C18: get_writer_for_tag answers with the writer of the lowest place in *)
(* the registry whose match_tag holds for the name, and with none when no  *)
(* writer matches; an Open tag, a Close tag with an index or a Standalone  *)
(* tag whose name no writer matches is rendered by the default text writer *)
(* as its escaped span, and serialize() goes on with the next token: every *)
(* token the parser returned is rendered, in order, before it returns      *)
C18_WriterLookup ==
    /\ [][(Rendered /\ for_tag_writer(ret[1])) =>
            /\ get_writer_for_tag(tag_cache, tag_impls, ret[1].tag) =
                   IF Answering(ret[1].tag) = {} THEN <<>>
                   ELSE <<First(Answering(ret[1].tag))>>
            /\ Made.token = ret[1]
            /\ IF Answering(ret[1].tag) = {}
               THEN /\ Made = Call("write_token", 0, ret[1], <<>>)
                    /\ calls' = Append(calls, Made)
                    /\ out' = out \o encode_safe(ret[1].span)
               ELSE /\ Made.writer = First(Answering(ret[1].tag))
                    /\ Made.hook = HookOf(ret[1].kind)]_vars
    /\ [](panic = "none")
    /\ [](phase \in {"stream", "dangling", "done"} =>
            /\ Len(Renderings) >= Len(tokens)
            /\ \A i \in 1..Len(tokens) : Renderings[i].token = tokens[i])
    /\ [](phase = "done" => ended)

\* a tag was rendered by the first of two writers that match its name, and
\* a tag no writer matches was rendered as text before it
C18_Witness ==
    /\ phase = "done"
    /\ \E i \in 1..Len(calls) :
        /\ calls[i].hook = "open_tag"
        /\ calls[i].writer = 2
        /\ Answering(calls[i].token.tag) = {2, 3}
        /\ \E j \in 1..(i - 1) :
            /\ calls[j].hook = "write_token"
            /\ calls[j].token.kind = "Open"

\* the characters html_escape::encode_safe replaces
Special == {"&", "<", ">", "\"", "'", "/"}

\* the token is none of those the tag writers are asked about
ForTextWriter(t) ==
    \/ t.kind \in {"Text", "Custom"}
    \/ t.kind = "Close" /\ t.idx = NoneIdx

\* the characters the step pushed to the buffer
Pushed == SubSeq(out', Len(out) + 1, Len(out'))

(* C19: a token of the stream that is Text, Custom or a Close tag without *)
(* an index is rendered by the default text writer alone: write_token is   *)
(* the one call made for it, no open_tag, close_tag, standalone_tag or     *)
(* try_special, also when a writer of the registry matches the name of the *)
(* close tag, and no rule is pushed; what is pushed to the buffer is the   *)
(* escaped span: it holds none of < > " ' and is the span itself when the  *)
(* span has none of the characters that are escaped                        *)
C19_TextWriterOnly ==
    [][(Rendered /\ ForTextWriter(ret[1])) =>
         /\ calls' = Append(calls, Call("write_token", 0, ret[1], <<>>))
         /\ Len(out') >= Len(out)
         /\ SubSeq(out', 1, Len(out)) = out
         /\ Pushed = encode_safe(ret[1].span)
         /\ \A i \in 1..Len(Pushed) : Pushed[i] \notin {"<", ">", "\"", "'"}
         /\ (\A i \in 1..Len(ret[1].span) : ret[1].span[i] \notin Special)
                => Pushed = ret[1].span
         /\ ret[1].span = <<"<">> => Pushed = <<"&", "l", "t", ";">>
         /\ UNCHANGED rule_stack]_vars

\* a Close tag without an index whose name a writer matches, and a text
\* with a character to escape, were rendered by the default text writer
C19_Witness ==
    /\ phase = "done"
    /\ \E i, j \in 1..Len(calls) :
        /\ calls[i].hook = "write_token"
        /\ calls[i].token.kind = "Close"
        /\ calls[i].token.idx = NoneIdx
        /\ Answering(calls[i].token.tag) # {}
        /\ calls[j].hook = "write_token"
        /\ calls[j].token.span = <<"<">>

\* a Custom token was rendered by the default text writer
C19_CustomWitness ==
    \E i \in 1..Len(calls) :
        /\ calls[i].hook = "write_token"
        /\ calls[i].token.kind = "Custom"
        /\ calls[i].token.span = <<"[", "b">>

\* the call serialize() made for the k-th tag left open
DanglingCall(k) == Renderings[Len(tokens) + k]

(* C20: once the parser has returned None, serialize() visits the tags    *)
(* still in open_tags, oldest first, one call each and after the calls for *)
(* every token of the stream: for a tag with a matching writer the call is *)
(* close_tag of that writer, with the tag left open as open_token and a    *)
(* close token made up with its span, start, name and args and no index;   *)
(* no try_special is called and open_tags stays as it is meanwhile         *)
C20_Dangling ==
    /\ [](phase \in {"dangling", "done"} =>
            /\ ended
            /\ Len(Renderings) = Len(tokens) + visit
            /\ visit <= Len(open_tags)
            /\ phase = "done" => visit = Len(open_tags)
            /\ \A k \in 1..visit :
                LET tk == open_tags[k]
                    d == DanglingCall(k)
                IN  IF Answering(tk.tag) = {}
                    THEN d = Call("write_token", 0, tk, <<>>)
                    ELSE /\ d.hook = "close_tag"
                         /\ d.writer = First(Answering(tk.tag))
                         /\ d.open_token = <<tk>>
                         /\ d.token.span = tk.span
                         /\ d.token.start = tk.start
                         /\ d.token.kind = "Close"
                         /\ d.token.tag = tk.tag
                         /\ d.token.args = tk.args
                         /\ d.token.idx = NoneIdx)
    /\ [][phase = "dangling" =>
            /\ UNCHANGED <<open_tags, closed_tags, tokens, rule_stack>>
            /\ Len(calls') = Len(calls) + 1
            /\ calls'[Len(calls')].hook # "try_special"]_vars

\* three tags were left open, the oldest and the newest with a writer and
\* the one between them without, one of them with args
C20_Witness ==
    /\ phase = "done"
    /\ Len(open_tags) = 3
    /\ Answering(open_tags[1].tag) # {}
    /\ Answering(open_tags[2].tag) = {}
    /\ Answering(open_tags[3].tag) # {}
    /\ open_tags[3].args # <<>>

\* the marker a writer call pushed to the buffer: the opening markup of the
\* writer, its closing markup, or none when the token was written as text
Marker(c) ==
    IF c.writer = 0 THEN "none"
    ELSE IF /\ c.hook = "open_tag"
            /\ tag_impls[c.writer].HTML_OPEN # <<>>
            /\ open_tag(tag_impls[c.writer], c.token) =
                   tag_impls[c.writer].HTML_OPEN[1]
    THEN "opening"
    ELSE IF /\ c.hook = "close_tag"
            /\ tag_impls[c.writer].HTML_CLOSE # <<>>
            /\ close_tag(tag_impls[c.writer], c.open_token[1], c.token) =
                   tag_impls[c.writer].HTML_CLOSE[1]
    THEN "closing"
    ELSE "none"

\* the markers of the calls cs are nested, given the writers of the
\* opening markers not closed yet: each closing marker is of the writer of
\* the latest opening marker not closed, and none stays open
RECURSIVE Nested(_, _)
Nested(cs, unclosed) ==
    IF cs = <<>> THEN unclosed = <<>>
    ELSE IF Marker(Head(cs)) = "opening"
    THEN Nested(Tail(cs), Append(unclosed, Head(cs).writer))
    ELSE IF Marker(Head(cs)) = "closing"
    THEN /\ unclosed # <<>>
         /\ unclosed[Len(unclosed)] = Head(cs).writer
         /\ Nested(Tail(cs), SubSeq(unclosed, 1, Len(unclosed) - 1))
    ELSE Nested(Tail(cs), unclosed)

\* every tag of the stream is argless and tags are popped in order
ArglessInOrder ==
    /\ POP_UNORDERED \notin feature_flags
    /\ \A i \in 1..Len(tokens) : IsTag(tokens[i]) => tokens[i].args = <<>>

(* C21: when every tag is argless, the markers in what serialize() returns *)
(* are well-formed: every opening marker is followed by one closing marker *)
(* of the same writer and the markers are nested, each closing marker      *)
(* closing the latest opening marker not yet closed, also when tags are    *)
(* left open at the end of the input                                       *)
C21_WellFormed ==
    (phase = "done" /\ ArglessInOrder) => Nested(calls, <<>>)

\* two argless tags of two writers were left open and serialize() returned
C21_Witness ==
    /\ phase = "done"
    /\ ArglessInOrder
    /\ Len(open_tags) = 2
    /\ Answering(open_tags[1].tag) # {}
    /\ Answering(open_tags[2].tag) # {}
    /\ Answering(open_tags[1].tag) # Answering(open_tags[2].tag)
    /\ out = <<"<", "b", ">", "<", "i", ">", "<", "/", "b", ">", "<", "/",
               "i", ">">>

\* as C21 where no two tags of different writers are left open
C21_OneDangling ==
    (/\ phase = "done"
     /\ ArglessInOrder
     /\ \A i, j \in 1..Len(open_tags) :
           Answering(open_tags[i].tag) = Answering(open_tags[j].tag))
        => Nested(calls, <<>>)

\* the writer of the registry that serialize() takes for the tag token
WriterOf(t) == tag_impls[First(Answering(t.tag))]

\* the token is an argless tag that a writer with opening and closing
\* markup matches
PairedArgless(t) ==
    /\ t.args = <<>>
    /\ Answering(t.tag) # {}
    /\ WriterOf(t).HTML_OPEN # <<>>
    /\ WriterOf(t).HTML_CLOSE # <<>>

\* every token of the stream is a text, or an argless Open tag or resolved
\* Close tag of a built-in paired writer, and every tag was closed
AllPairedAndClosed ==
    /\ tag_impls = all_core_v1_tags
    /\ open_tags = <<>>
    /\ \A i \in 1..Len(tokens) :
        \/ tokens[i].kind = "Text"
        \/ /\ tokens[i].kind = "Open"
           /\ PairedArgless(tokens[i])
        \/ /\ tokens[i].kind = "Close"
           /\ tokens[i].idx # NoneIdx
           /\ PairedArgless(tokens[i])

\* the markup of the tokens ts, in their order
RECURSIVE Markup(_)
Markup(ts) ==
    IF ts = <<>> THEN <<>>
    ELSE (IF Head(ts).kind = "Open" THEN WriterOf(Head(ts)).HTML_OPEN[1]
          ELSE IF Head(ts).kind = "Close"
          THEN WriterOf(Head(ts)).HTML_CLOSE[1]
          ELSE encode_safe(Head(ts).span)) \o Markup(Tail(ts))

\* what html/tests.rs expects for SIMPLE_ESCAPED and for HTML_SIMPLE
SIMPLE_ESCAPED_HTML ==
    <<"<", "b", ">", "F", "o", "o", "&", "l", "t", ";", "b", "&", "g", "t",
    ";", "b", "a", "r", "<", "/", "b", ">", " ", "b", "a", "z", ".">>

HTML_SIMPLE_HTML ==
    <<"<", "h", "1", ">", "T", "h", "i", "s", " ", "i", "s", " ", "a", " ",
    "t", "e", "s", "t", "!", "<", "/", "h", "1", ">">>

(* C22: when every tag of the input is argless, nested and closed and is   *)
(* matched by a built-in writer with opening and closing markup, what      *)
(* serialize() returns is, in the order of the tokens, the opening markup  *)
(* of the writer for each Open tag, its closing markup for each resolved   *)
(* Close tag and the escaped span for each Text, with < as &lt; and > as   *)
(* &gt;: [b]Foo<b>bar[/b] baz. gives <b>Foo&lt;b&gt;bar</b> baz. and       *)
(* [title]This is a test![/title] gives <h1>This is a test!</h1>           *)
C22_Concatenation ==
    (phase = "done" /\ AllPairedAndClosed) =>
        /\ out = Markup(tokens)
        /\ (Len(tokens) = 1 /\ tokens[1].span = <<"<">>) =>
               out = <<"&", "l", "t", ";">>
        /\ input = SIMPLE_ESCAPED => out = SIMPLE_ESCAPED_HTML
        /\ input = HTML_SIMPLE => out = HTML_SIMPLE_HTML

\* serialize() returned for the input of html/tests.rs with a text to escape
C22_Witness ==
    /\ phase = "done"
    /\ AllPairedAndClosed
    /\ input = SIMPLE_ESCAPED
    /\ out = SIMPLE_ESCAPED_HTML

\* serialize() returned for the input of html/tests.rs with a title
C22_TitleWitness ==
    /\ phase = "done"
    /\ AllPairedAndClosed
    /\ input = HTML_SIMPLE
    /\ out = HTML_SIMPLE_HTML

\* serialize() returned for a tag closed around a text to escape
C22_EscapedWitness ==
    /\ phase = "done"
    /\ AllPairedAndClosed
    /\ Len(tokens) = 3
    /\ tokens[1].kind = "Open"
    /\ tokens[2].span = <<"<">>
    /\ tokens[3].kind = "Close"

----------------------------------------------------------------------------
(* The tag collections and the rule stack over the calls *)

\* the elements of the sequence
Elements(s) == {s[i] : i \in 1..Len(s)}

\* the call returned a close tag that the tracker resolved: the scanner
\* found a Close tag, no NoParse rule is left on top, and the search of the
\* open stack found the tag it closes
ResolvedNow ==
    /\ Returned
    /\ Scanned.kind = "Close"
    /\ ~(rule_stack' # <<>> /\ rule_stack'[Len(rule_stack')].action = "NoParse")
    /\ to_remove(open_tags, Len(open_tags), Scanned.tag, feature_flags)
           # NoneIdx

(* C23: closed_tags is append-only: over next() and push_rule calls its    *)
(* length never decreases, it grows by exactly one in a next() call that   *)
(* resolves a close tag and by zero in any other call, the entry added is  *)
(* the tag taken from open_tags, and an entry that exists keeps its value  *)
(* and its place                                                           *)
C23_AppendOnly ==
    [][/\ Len(closed_tags') >= Len(closed_tags)
       /\ SubSeq(closed_tags', 1, Len(closed_tags)) = closed_tags
       /\ IF ResolvedNow
          THEN /\ Len(closed_tags') = Len(closed_tags) + 1
               /\ closed_tags'[Len(closed_tags')] \in Elements(open_tags)
               /\ Len(open_tags') = Len(open_tags) - 1
               /\ ret'[1].kind = "Close"
          ELSE closed_tags' = closed_tags]_vars

\* two close tags were resolved, a rule was pushed and the parser was
\* asked again, and the closed tags are in the order of their resolution
C23_Witness ==
    /\ Len(closed_tags) = 2
    /\ closed_tags[1] # closed_tags[2]
    /\ rule_stack # <<>>
    /\ ended
    /\ \E i, j \in 1..Len(tokens) :
        /\ i < j
        /\ tokens[i].kind = "Close" /\ tokens[i].idx = 0
        /\ tokens[j].kind = "Close" /\ tokens[j].idx = 1

\* the rule below the top of the rule stack is a NoParse rule
NoParseBelow ==
    /\ Len(rule_stack) >= 2
    /\ rule_stack[Len(rule_stack) - 1].action = "NoParse"

\* the step is a next() call in which the upper of two NoParse rules
\* releases on the close tag it waits for
UpperReleased == Returned /\ NoParseOnTop /\ NoParseBelow /\ Terminating

\* the step is a next() call in which a NoParse rule that another rule
\* was released from releases on the close tag it waits for, with no rule
\* below it
LowerReleased ==
    /\ Returned
    /\ uncovered
    /\ Len(rule_stack) = 1
    /\ NoParseOnTop
    /\ Terminating

(* C24, as claimed: with two NoParse rules stacked, when the upper one    *)
(* releases on the close tag it waits for, the rule below becomes the top  *)
(* and the token of that call is forced to Text and is not tracked as a    *)
(* close tag; the lower rule stays and keeps suppressing until the close   *)
(* tag it waits for, which is returned as a Close tag                      *)
C24_Original ==
    /\ [][UpperReleased =>
            /\ rule_stack' = WithoutLast(rule_stack)
            /\ ret'[1].kind = "Text"
            /\ UNCHANGED <<open_tags, closed_tags>>]_vars
    /\ [][(Returned /\ uncovered /\ NoParseOnTop /\ ~Terminating) =>
            /\ ret'[1].kind = "Text"
            /\ UNCHANGED <<rule_stack, open_tags, closed_tags>>]_vars
    /\ [][LowerReleased => (rule_stack' = <<>> /\ ret'[1].kind = "Close")]_vars

(* C24, amended: with two NoParse rules stacked, when the upper one        *)
(* releases on the close tag it waits for, the rule below becomes the top  *)
(* and the token of that call is forced to Text, with the span scanned,    *)
(* and is not tracked as a close tag; the lower rule stays and keeps       *)
(* suppressing until the close tag it waits for, which passes the rule     *)
(* step as a Close tag and is returned as tag tracking leaves it: as a     *)
(* Close tag, resolved when the open stack has an element for it, and as   *)
(* Text only when it does not resolve under UNMATCHED_CLOSE_AS_TEXT        *)
C24_Stacked ==
    /\ [][UpperReleased =>
            /\ rule_stack' = WithoutLast(rule_stack)
            /\ ret'[1].kind = "Text"
            /\ ret'[1].span = Scanned.span
            /\ uncovered'
            /\ UNCHANGED <<open_tags, closed_tags>>]_vars
    /\ [][(Returned /\ uncovered /\ NoParseOnTop /\ ~Terminating) =>
            /\ ret'[1].kind = "Text"
            /\ UNCHANGED <<rule_stack, open_tags, closed_tags, uncovered>>]_vars
    /\ [][LowerReleased =>
            /\ rule_stack' = <<>>
            /\ AsClassified
            /\ CanResolve <=> Resolved
            /\ ret'[1].kind = "Text" =>
                   (UNMATCHED_CLOSE_AS_TEXT \in feature_flags /\ ~CanResolve)]_vars

\* the upper of two rules for one name was released by a close tag that
\* was returned as text, and the close tag the lower rule waited for was
\* returned next, as a Close tag resolved against the tag open
C24_Witness ==
    /\ rule_stack = <<>>
    /\ UNMATCHED_CLOSE_AS_TEXT \notin feature_flags
    /\ ret # <<>>
    /\ ret[1].kind = "Close"
    /\ ret[1].idx # NoneIdx
    /\ Len(tokens) >= 2
    /\ classified[Len(tokens) - 1].kind = "Close"
    /\ tokens[Len(tokens) - 1].kind = "Text"
    /\ SameUpToCase(classified[Len(tokens) - 1].tag, ret[1].tag)

\* the step is a push_rule call
PushedRule == Len(rule_stack') = Len(rule_stack) + 1

\* the top rule, asked about the token scanned, signals its release
TopSignals ==
    /\ rule_stack # <<>>
    /\ transform_token(rule_stack[Len(rule_stack)], Scanned)

(* C25: the rule stack changes in two ways only: push_rule puts one rule  *)
(* on top and leaves cursor, open_tags and closed_tags as they are, and a  *)
(* next() call removes at most one rule, the top one, and only when that   *)
(* rule signalled its release for the token of the call; the rules below   *)
(* the top are not consulted, whatever they would answer, and stay in      *)
(* their order                                                             *)
C25_RuleStack ==
    /\ [][\/ /\ PushedRule
             /\ SubSeq(rule_stack', 1, Len(rule_stack)) = rule_stack
             /\ ~Returned
             /\ UNCHANGED <<input, loc, open_tags, closed_tags, ret, ended,
                            feature_flags>>
          \/ rule_stack' = rule_stack
          \/ /\ Returned
             /\ rule_stack # <<>>
             /\ rule_stack' = WithoutLast(rule_stack)]_vars
    /\ [][Returned =>
            IF TopSignals THEN rule_stack' = WithoutLast(rule_stack)
            ELSE rule_stack' = rule_stack]_vars

\* the rule below the top would have released on the close tag scanned, the
\* top rule did not, and both rules are still on the stack
C25_Witness ==
    /\ Len(rule_stack) = 2
    /\ ret # <<>>
    /\ classified[Len(classified)].kind = "Close"
    /\ transform_token(rule_stack[1], classified[Len(classified)])
    /\ ~transform_token(rule_stack[2], classified[Len(classified)])
    /\ ret[1].kind = "Text"

\* the top of two rules of different names was removed by a next() call
C25_PopWitness ==
    /\ Len(rule_stack) = 1
    /\ uncovered
    /\ rule_stack[1].tag_name # classified[Len(classified)].tag
    /\ classified[Len(classified)].kind = "Close"

\* the rule step of the call rewrote the token to Text: a NoParse rule is
\* on top of the rule stack once the top rule has answered
Suppressed == rule_stack' # <<>> /\ rule_stack'[Len(rule_stack')].action = "NoParse"

(* C26: in every next() call the rule step comes before tag tracking: the *)
(* top rule answers for the token as the scanner classified it, before the *)
(* token is on the open stack or resolved; tag tracking then acts on the   *)
(* token as the rule step left it: a token rewritten to Text by a rule is  *)
(* not pushed onto the open stack and neither resolves nor removes an open *)
(* tag, and a token the rule step left alone is tracked as classified, an  *)
(* Open tag that is pushed being the token returned                        *)
C26_RulesBeforeTracking ==
    /\ [][(Returned /\ rule_stack # <<>>) =>
            (rule_stack' = WithoutLast(rule_stack)) <=> TopSignals]_vars
    /\ [][(Returned /\ Suppressed) =>
            /\ ret'[1].kind = "Text"
            /\ ret'[1].span = Scanned.span
            /\ UNCHANGED <<open_tags, closed_tags>>]_vars
    /\ [][(Returned /\ ~Suppressed) =>
            LET tracked == track(Scanned, open_tags, closed_tags,
                                 feature_flags)
            IN  /\ ret'[1] = tracked.token
                /\ open_tags' = tracked.open_tags
                /\ closed_tags' = tracked.closed_tags
                /\ Scanned.kind = "Open" =>
                       open_tags' = Append(open_tags, ret'[1])]_vars

\* a token classified as an Open tag was rewritten to Text by the rule on
\* top, and the open stack is still empty
C26_Witness ==
    /\ rule_stack # <<>>
    /\ ret # <<>>
    /\ ret[1].kind = "Text"
    /\ classified[Len(classified)].kind = "Open"
    /\ open_tags = <<>>
    /\ closed_tags = <<>>

\* a rule was asked about a close tag and released, and tag tracking then
\* returned the close tag as text
C26_ReleasedTextWitness ==
    /\ rule_stack = <<>>
    /\ UNMATCHED_CLOSE_AS_TEXT \in feature_flags
    /\ Len(tokens) = 2
    /\ classified[1].kind = "Open"
    /\ tokens[1].kind = "Text"
    /\ classified[2].kind = "Close"
    /\ tokens[2].kind = "Text"

\* the top of the rule stack before the step is a CustomParser rule
CustomOnTop ==
    rule_stack # <<>> /\ rule_stack[Len(rule_stack)].action = "CustomParser"

(* C27, as claimed: a rule whose action is CustomParser is never asked    *)
(* for its release and never popped by next(): once pushed it stays on the *)
(* rule stack in every later call, whatever its transform_token answers    *)
C27_Original ==
    [][(Returned /\ CustomOnTop) => rule_stack' = rule_stack]_vars

(* C27, amended: a rule whose action is CustomParser takes part in the    *)
(* release flow as any rule does: in a next() call with the rule on top,   *)
(* its transform_token is asked about the token its parse_custom returned  *)
(* and the rule is popped in that call exactly when it signals release;    *)
(* while it does not, it stays on top; the rule step leaves the token as   *)
(* parse_custom returned it                                                *)
C27_CustomRelease ==
    [][(Returned /\ CustomOnTop) =>
         /\ Scanned.kind = "Custom"
         /\ IF rule_stack[Len(rule_stack)].releases
            THEN rule_stack' = WithoutLast(rule_stack)
            ELSE rule_stack' = rule_stack
         /\ (rule_stack' = WithoutLast(rule_stack)) <=> TopSignals
         /\ ret'[1] = Scanned]_vars

\* a CustomParser rule was popped by the call that returned its token
C27_Witness ==
    /\ rule_stack = <<>>
    /\ Len(tokens) = 1
    /\ tokens[1].kind = "Custom"
    /\ custom_input = <<input>>

\* a CustomParser rule that does not signal release is on top after two
\* calls
C27_StayWitness ==
    /\ rule_stack = <<CustomParserRule(FALSE)>>
    /\ Len(tokens) = 2
    /\ tokens[1].kind = "Custom"
    /\ tokens[2].kind = "Custom"

\* the step resolved the name of the token rendered to a writer
ResolvedWriter ==
    /\ Rendered
    /\ for_tag_writer(ret[1])
    /\ Answering(ret[1].tag) # {}

(* C28: the first time a tag name is resolved to a writer its place in    *)
(* the registry is stored in tag_cache, later resolutions of the name are  *)
(* answered from the cache, and an entry of the cache is never removed or  *)
(* changed                                                                 *)
C28_Cache ==
    /\ [][ResolvedWriter =>
            /\ ret[1].tag \in DOMAIN tag_cache'
            /\ tag_cache'[ret[1].tag] = First(Answering(ret[1].tag))]_vars
    /\ [][\A n \in DOMAIN tag_cache :
            n \in DOMAIN tag_cache' /\ tag_cache'[n] = tag_cache[n]]_vars

\* one name was resolved to a writer twice
C28_Witness ==
    /\ phase = "done"
    /\ \E i, j \in 1..Len(calls) :
        /\ i < j
        /\ calls[i].hook = "open_tag"
        /\ calls[j].hook = "close_tag"
        /\ calls[i].writer # 0
        /\ calls[j].writer = calls[i].writer
        /\ calls[j].token.tag = calls[i].token.tag

\* what the code does: nothing is ever stored in tag_cache
CacheStaysEmpty == tag_cache = <<>>

\* the rule the writer of the call returns for the token of the call, <<>>
\* for none
RuleOf(c) ==
    IF c.writer = 0 THEN <<>> ELSE try_special(tag_impls[c.writer], c.token)

\* the last call serialize() made asked a writer for a rule and got one
RuleJustPushed ==
    /\ calls # <<>>
    /\ calls[Len(calls)].hook = "try_special"
    /\ RuleOf(calls[Len(calls)]) # <<>>

(* C29: after serialize() has rendered an Open tag, a resolved Close tag  *)
(* or a Standalone tag through a matching writer, it asks that writer for  *)
(* a rule with try_special on the same token, and a rule that is returned  *)
(* is put on top of the rule stack of the parser before the next token is  *)
(* pulled: the next call of next() finds the rule on top, and the token    *)
(* after the tag is returned as text unless it is the close tag the rule   *)
(* waits for; no rule is asked for after a token rendered by the default   *)
(* text writer                                                             *)
C29_TrySpecial ==
    /\ [][(Rendered /\ Made.writer # 0) =>
            /\ Made.hook = HookOf(ret[1].kind)
            /\ calls' = calls \o
                   <<Made, Call("try_special", Made.writer, ret[1], <<>>)>>
            /\ rule_stack' =
                   IF RuleOf(Made) = <<>> THEN rule_stack
                   ELSE Append(rule_stack, RuleOf(Made)[1])
            /\ UNCHANGED <<loc, tokens, ret, open_tags, closed_tags>>]_vars
    /\ [][(Rendered /\ Made.writer = 0) =>
            /\ calls' = Append(calls, Made)
            /\ Made.hook = "write_token"
            /\ UNCHANGED rule_stack]_vars
    /\ [][(phase = "stream" /\ RuleJustPushed) =>
            /\ rule_stack # <<>>
            /\ rule_stack[Len(rule_stack)] = RuleOf(calls[Len(calls)])[1]
            /\ Returned =>
                   IF Terminating THEN rule_stack' = WithoutLast(rule_stack)
                   ELSE /\ ret'[1].kind = "Text"
                        /\ UNCHANGED <<rule_stack, open_tags, closed_tags>>]_vars

\* the writer of an Open tag returned a rule, the Open tag after it was
\* rendered as text, the close tag of the name was resolved and rendered
\* by the writer, and the Open tag after that was rendered by its writer
C29_Witness ==
    /\ phase = "done"
    /\ input = SPECIAL_RULE
    /\ Len(calls) = 8
    /\ calls[1].hook = "open_tag"
    /\ calls[2].hook = "try_special"
    /\ RuleOf(calls[2]) = <<NoParseRule(<<"v">>)>>
    /\ calls[3].hook = "write_token"
    /\ classified[2].kind = "Open"
    /\ calls[4].hook = "close_tag"
    /\ calls[6].hook = "open_tag"
    /\ out = <<"<", "p", "r", "e", ">", "[", "b", "]", "<", "/", "p", "r",
               "e", ">", "<", "b", ">", "<", "/", "b", ">">>

\* the Open tags among the tokens returned so far
OpenReturned == SelectSeq(tokens, LAMBDA t : t.kind = "Open")

\* the sequence without its element at place i
Without(s, i) == SubSeq(s, 1, i - 1) \o SubSeq(s, i + 1, Len(s))

(* C30: in every state of the parser open_tags and closed_tags hold Open  *)
(* tag tokens only, the entries of open_tags are in strictly increasing    *)
(* order of start, and open_tags and closed_tags together hold as many     *)
(* entries as Open tags were returned so far; every Open tag returned is   *)
(* pushed onto open_tags, an entry leaves open_tags only in a call that    *)
(* returns a Close tag resolved to it, which moves it to closed_tags, and  *)
(* a call that returns a Text, a Standalone, a Custom or an unresolved     *)
(* Close token leaves open_tags and closed_tags as they are                *)
C30_TagCollections ==
    /\ [](/\ \A i \in 1..Len(open_tags) : open_tags[i].kind = "Open"
          /\ \A i \in 1..Len(closed_tags) : closed_tags[i].kind = "Open"
          /\ \A i \in 1..(Len(open_tags) - 1) :
                 open_tags[i].start < open_tags[i + 1].start
          /\ Len(open_tags) + Len(closed_tags) = Len(OpenReturned)
          /\ Elements(open_tags) \cup Elements(closed_tags) =
                 Elements(OpenReturned)
          /\ Elements(open_tags) \cap Elements(closed_tags) = {})
    /\ [][IF ~Returned THEN UNCHANGED <<open_tags, closed_tags>>
         ELSE IF ret'[1].kind = "Open"
         THEN /\ open_tags' = Append(open_tags, ret'[1])
              /\ UNCHANGED closed_tags
         ELSE IF ret'[1].kind = "Close" /\ ret'[1].idx # NoneIdx
         THEN \E i \in 1..Len(open_tags) :
                 /\ open_tags' = Without(open_tags, i)
                 /\ closed_tags' = Append(closed_tags, open_tags[i])
                 /\ ret'[1].idx = Len(closed_tags)
         ELSE UNCHANGED <<open_tags, closed_tags>>]_vars

\* an Open tag below the top of the open stack was resolved and the one
\* above it stayed, and Text was returned meanwhile
C30_Witness ==
    /\ Len(open_tags) = 1
    /\ Len(closed_tags) = 1
    /\ closed_tags[1].start < open_tags[1].start
    /\ ret # <<>>
    /\ ret[1].kind = "Close"
    /\ ret[1].idx = 0
    /\ \E i \in 1..Len(tokens) : tokens[i].kind = "Text"

\* Standalone tags and Close tags that do not resolve were returned while
\* three tags were open
C30_UnchangedWitness ==
    /\ Len(open_tags) = 3
    /\ closed_tags = <<>>
    /\ ended
    /\ \E i, j \in 4..Len(tokens) :
        /\ tokens[i].kind = "Standalone"
        /\ tokens[j].kind = "Close"
        /\ tokens[j].idx = NoneIdx

----------------------------------------------------------------------------
(* Panics, termination and token boundaries *)

(* C31: no panic site is reached: next() never finds a token that is no   *)
(* Open tag on the open stack and never calls rewrite_with_opening_tag on  *)
(* a token that is no Close tag, and serialize() never indexes closed_tags *)
(* out of bounds and never reaches its unreachable!() branches: the open   *)
(* stack holds Open tags only, and the index of every Close tag returned   *)
(* is a place of closed_tags that holds an Open tag                        *)
C31_NoPanic ==
    /\ panic = "none"
    /\ \A i \in 1..Len(open_tags) : open_tags[i].kind = "Open"
    /\ \A i \in 1..Len(tokens) :
        tokens[i].idx # NoneIdx =>
            /\ tokens[i].kind = "Close"
            /\ tokens[i].idx >= 0
            /\ tokens[i].idx < Len(closed_tags)
            /\ closed_tags[tokens[i].idx + 1].kind = "Open"

\* serialize() returned after it looked up closed_tags for a resolved Close
\* tag and closed a tag left open through its writer
C31_Witness ==
    /\ phase = "done"
    /\ \E i, j \in 1..Len(calls) :
        /\ i < j
        /\ calls[i].hook = "close_tag"
        /\ calls[i].token.idx # NoneIdx
        /\ calls[j].hook = "close_tag"
        /\ calls[j].token.idx = NoneIdx
        /\ calls[j].open_token = <<open_tags[Len(open_tags)]>>

\* a parser driven by its caller resolved the close tag that released a
\* rule, with a tag still open below and an Open tag suppressed before
C31_ParserWitness ==
    /\ phase = "idle"
    /\ POP_UNORDERED \in feature_flags
    /\ ret # <<>>
    /\ ret[1].kind = "Close"
    /\ ret[1].idx # NoneIdx
    /\ open_tags # <<>>
    /\ \E i \in 1..Len(tokens) :
        tokens[i].kind = "Text" /\ classified[i].kind = "Open"

\* the run is over: the caller of the parser was returned None, or
\* serialize() returned
Over == IF phase = "idle" THEN ended ELSE phase = "done"

\* every token returned has a span that is not empty and moves the cursor
\* by the length of the span; the cursor stays within the input, and None
\* is returned at its end and from then on
TokensAdvance ==
    /\ [][Returned =>
            /\ Len(ret'[1].span) > 0
            /\ loc' > loc
            /\ loc' = loc + Len(ret'[1].span)]_vars
    /\ [](/\ Len(tokens) <= Len(input)
          /\ loc <= Len(input)
          /\ ended => loc = Len(input))
    /\ [][ended => UNCHANGED <<loc, tokens, open_tags, closed_tags>>]_vars

(* C32: with no rule whose action is CustomParser, every token next()     *)
(* returns has a span that is not empty, and every call that returns a     *)
(* token moves the cursor forward by the length of the span, so that for   *)
(* an input of n bytes at most n tokens are returned before None, which is *)
(* returned once the cursor is at the end; serialize() terminates on every *)
(* input, after one call for each token and each tag left open             *)
C32_Termination ==
    /\ TokensAdvance
    /\ <>Over
    /\ [](phase = "done" =>
            /\ ended
            /\ Len(Renderings) = Len(tokens) + Len(open_tags))

\* serialize() returned for an input in which every byte is a token
C32_Witness ==
    /\ phase = "done"
    /\ Len(input) = 2
    /\ Len(tokens) = 2
    /\ \A i \in 1..2 : Len(tokens[i].span) = 1

\* the parser returned None to its caller after as many tokens as the
\* input has bytes, with a rule on the stack
C32_ParserWitness ==
    /\ phase = "idle"
    /\ ended
    /\ Len(input) = 2
    /\ Len(tokens) = 2
    /\ rule_stack # <<>>

\* the (start, span) pairs of the tokens of the input from offset l on, as
\* the scanner alone cuts them: no feature flag and no rule takes part
RECURSIVE Boundaries(_, _)
Boundaries(inp, l) ==
    IF at_end(inp, l) THEN <<>>
    ELSE LET s == scan(inp, l)
         IN  <<[start |-> s.token.start, span |-> s.token.span]>>
                 \o Boundaries(inp, s.loc)

\* the (start, span) pairs of the tokens returned so far
Returns == [i \in 1..Len(tokens) |->
               [start |-> tokens[i].start, span |-> tokens[i].span]]

\* the returned token differs from the scanned one in its kind alone: it
\* was rewritten to Text, or it is a Close tag that got an index
KindOnly(t, s) ==
    /\ t.span = s.span
    /\ t.start = s.start
    /\ \/ t = s
       \/ t = rewrite_as_text(s)
       \/ s.kind = "Close" /\ t.idx # NoneIdx /\ t = [s EXCEPT !.idx = t.idx]

\* C33: whatever the feature flags and whatever NoParse rules were pushed
\* and when, the (start, span) pairs returned so far are the first ones of
\* the boundaries that the input alone determines, and all of them once the
\* end was reported, so two parsers over the same input return the same
\* pairs; a token rewritten to Text by a rule or by UNMATCHED_CLOSE_AS_TEXT,
\* or given a back-reference index, keeps the span and the start it was
\* scanned with and changes in its kind alone
C33_Boundaries ==
    LET all == Boundaries(input, 0)
    IN  /\ Len(tokens) <= Len(all)
        /\ Returns = SubSeq(all, 1, Len(tokens))
        /\ ended => Len(tokens) = Len(all)
        /\ \A i \in 1..Len(tokens) : KindOnly(tokens[i], classified[i])

\* no_parse_rule was parsed to its end under a pushed rule: a Close and an
\* Open tag were returned as Text by the rule and a Close tag got its index
C33_Witness ==
    /\ ended
    /\ input = NO_PARSE_RULE
    /\ \E i, j, k \in 1..Len(tokens) :
          /\ classified[i].kind = "Open" /\ tokens[i].kind = "Text"
          /\ classified[j].kind = "Close" /\ tokens[j].kind = "Text"
          /\ tokens[k].idx # NoneIdx

\* an unmatched close tag was returned as Text under
\* UNMATCHED_CLOSE_AS_TEXT with no rule on the stack
C33_UnmatchedWitness ==
    /\ ended
    /\ rule_stack = <<>>
    /\ UNMATCHED_CLOSE_AS_TEXT \in feature_flags
    /\ \E j \in 1..Len(tokens) :
          /\ classified[j].kind = "Close" /\ tokens[j].kind = "Text"
          /\ tokens[j].span = classified[j].span

\* the tag left open at place k of open_tags has no writer
Writerless(k) == Answering(open_tags[k].tag) = {}

\* the places of the stream at which the token tk was returned
StreamPlaces(tk) == {i \in 1..Len(tokens) : tokens[i] = tk}

\* the parser cut every token itself, none came from a custom parser
NoCustomToken == \A i \in 1..Len(tokens) : tokens[i].kind # "Custom"

\* C34: when serialize() is over, an Open tag left in open_tags that no
\* writer matches was passed to the default text writer twice, once at its
\* place in the stream and once more after the end of the stream, at its
\* place among the tags left open; with no writer at all the output is the
\* escaped spans of the stream followed by the escaped spans of the tags
\* left open, so '[foo]bar', cut by the parser itself, gives
\* '[foo]bar[foo]'
C34_WrittenTwice ==
    phase = "done" =>
        /\ Len(Renderings) = Len(tokens) + Len(open_tags)
        /\ \A k \in 1..Len(open_tags) :
              LET tk == open_tags[k]
              IN  Writerless(k) =>
                    /\ StreamPlaces(tk) # {}
                    /\ \A i \in StreamPlaces(tk) :
                          Renderings[i] = Call("write_token", 0, tk, <<>>)
                    /\ Renderings[Len(tokens) + k] =
                           Call("write_token", 0, tk, <<>>)
                    /\ Len(out) >= 2 * Len(write_token(tk))
        /\ tag_impls = <<>> =>
              out = encode_safe(ConcatSpans(tokens) \o ConcatSpans(open_tags))
        /\ (input = DANGLING_UNKNOWN /\ NoCustomToken) =>
              out = <<"[", "f", "o", "o", "]", "b", "a", "r",
                      "[", "f", "o", "o", "]">>

\* '[foo]bar' was serialized with the built-in writers, none of them for
\* foo: the tag was written as text in the stream and again after it
C34_Witness ==
    /\ phase = "done"
    /\ input = DANGLING_UNKNOWN
    /\ NoCustomToken
    /\ tag_impls # <<>>
    /\ Len(open_tags) = 1
    /\ Writerless(1)
    /\ Len(calls) = 3
    /\ calls[1] = calls[3]
    /\ calls[1].hook = "write_token"

\* two tags without writer were left open with one that has a writer
C34_MixedWitness ==
    /\ phase = "done"
    /\ \E j, k \in 1..Len(open_tags) :
          j # k /\ Writerless(j) /\ ~Writerless(k)

====
